---- MODULE Spec2Model ----
(***************************************************************************)
(* Model of the index construction engine of index-builder                 *)
(* (src/fast_app/services.py, class IndexBuilderService).                  *)
(*                                                                         *)
(* Dates are day numbers (one unit = timedelta(days=1)).  SQL REAL and     *)
(* Python float values are exact rationals [n, d] in lowest terms with     *)
(* d > 0, so every arithmetic identity below is one of real arithmetic;    *)
(* binary floating-point rounding is outside the model.  A nullable SQL    *)
(* column is a sequence of length at most one: <<>> is NULL, <<v>> is v.   *)
(* The volume column is carried by the code but never persisted to an      *)
(* index table and never read by the engine; it is left out.               *)
(***************************************************************************)
EXTENDS Integers, Sequences, FiniteSets, TLC

VARIABLES
    daily_stock_prices,   \* market data store: rows [date, symbol, exchange, close]
    daily_market_cap,     \* market data store: rows [date, symbol, exchange, market_cap]
    index_performance,    \* persisted rows [date, nav, daily_return, cumulative_return, top_n]
    index_composition,    \* persisted rows [date, symbol, exchange, market_cap, price, shares, weight, notional_value, top_n]
    composition_changes,  \* persisted rows [date, symbol, exchange, change_type, market_cap, top_n]
    phase,                \* position of build_index: IDLE, ITERATING, DONE, FAILED, ABORTED
    req,                  \* arguments of the running / last build_index call
    init_date,            \* build_index local
    current_date,         \* build_index local
    current_nav,          \* build_index local
    prev_portfolio,       \* build_index local: list of position dicts
    days_processed,       \* build_index local
    response,             \* BuildIndexResponse of the last returned build
    probed,               \* history: dates handed to _get_top_n_stocks by the INIT loop
    day_log,              \* history: what the last loop iteration did
    first_run,            \* history: what the previous build left when this one began
    fn_call,              \* argument/result of the last direct call of a pure helper
    cache,                \* RedisCache: set of [key, value] with one value per key
    reply,                \* outcome of the last HTTP request the API answered
    pending               \* POST /build-index requests received and not yet dispatched

vars == <<daily_stock_prices, daily_market_cap, index_performance, index_composition,
          composition_changes, phase, req, init_date, current_date, current_nav,
          prev_portfolio, days_processed, response, probed, day_log, first_run, fn_call,
          cache, reply, pending>>

api_vars == <<cache, reply, pending>>
store_vars == <<daily_stock_prices, daily_market_cap>>
table_vars == <<index_performance, index_composition, composition_changes>>
build_vars == <<phase, req, init_date, current_date, current_nav, prev_portfolio,
                days_processed, response, probed, day_log, first_run>>

----------------------------------------------------------------------------
(* Bounds of the model *)

\* last calendar date of the modelled market data
LastDate == 12
\* largest top_n a build is asked for
MaxTopN == 2

\* max_attempts of the INIT lookback
max_attempts == 10

\* (symbol, exchange) keys of the modelled stocks; two share a symbol
K1 == <<"A", "X">>
K2 == <<"A", "Y">>
K3 == <<"B", "X">>
Keys == {K1, K2, K3}

\* earliest start_date whose whole lookback window lies on modelled dates
MinStart == max_attempts + 1
StartDates == {MinStart, MinStart + 1}
NavValues == {12}
\* datetime.now() of a build without end_date
Today == LastDate

----------------------------------------------------------------------------
(* Exact rational arithmetic for REAL / float values *)

RECURSIVE Gcd(_, _)
Gcd(a, b) == IF b = 0 THEN a ELSE Gcd(b, a % b)

Abs(x) == IF x < 0 THEN -x ELSE x

\* the one element of a singleton set; an operator below takes its arguments
\* through singleton sets so that each argument is evaluated once
Once(S) == CHOOSE x \in S : TRUE

\* the rational n/d (d # 0) in lowest terms with positive denominator
Rat(n, d) ==
    Once({LET g == Gcd(Abs(x), Abs(y))
              s == IF y < 0 THEN -1 ELSE 1
          IN [n |-> (s * x) \div g, d |-> (s * y) \div g] : x \in {n}, y \in {d}})

R(i) == [n |-> i, d |-> 1]
\* Python raises ZeroDivisionError on a zero divisor: the result is the value
\* DivZero (denominator 0), which every later operation propagates
DivZero == [n |-> 0, d |-> 0]
IsNum(a) == a.d > 0
Both(a, b) == IsNum(a) /\ IsNum(b)
RAdd(a, b) ==
    Once({IF Both(x, y) THEN Rat(x.n * y.d + y.n * x.d, x.d * y.d) ELSE DivZero :
            x \in {a}, y \in {b}})
RSub(a, b) ==
    Once({IF Both(x, y) THEN Rat(x.n * y.d - y.n * x.d, x.d * y.d) ELSE DivZero :
            x \in {a}, y \in {b}})
RMul(a, b) ==
    Once({IF Both(x, y) THEN Rat(x.n * y.n, x.d * y.d) ELSE DivZero : x \in {a}, y \in {b}})
RDiv(a, b) ==
    Once({IF Both(x, y) /\ y.n # 0 THEN Rat(x.n * y.d, x.d * y.n) ELSE DivZero :
            x \in {a}, y \in {b}})
\* a // b on floats: the floor of the quotient
RFloorDiv(a, b) ==
    Once({IF IsNum(q) THEN R(q.n \div q.d) ELSE DivZero : q \in {RDiv(a, b)}})
RLt(a, b) == \E x \in {a}, y \in {b} : x.n * y.d < y.n * x.d
RLe(a, b) == \E x \in {a}, y \in {b} : x.n * y.d <= y.n * x.d
RGt(a, b) == RLt(b, a)

RECURSIVE RSumSeq(_)
RSumSeq(s) == IF s = <<>> THEN R(0) ELSE RAdd(Head(s), RSumSeq(Tail(s)))

----------------------------------------------------------------------------
(* Small helpers on sets and sequences *)

Range(s) == {s[i] : i \in 1..Len(s)}
Min2(a, b) == IF a < b THEN a ELSE b
\* all orderings of a finite set as sequences without repetition
Perms(S) == {p \in [1..Cardinality(S) -> S] : \A i, j \in 1..Cardinality(S) : p[i] = p[j] => i = j}
KeyOf(s) == <<s.symbol, s.exchange>>
KeySet(list) == {KeyOf(list[i]) : i \in 1..Len(list)}

----------------------------------------------------------------------------
(* _get_top_n_stocks: the price / market-cap join, ORDER BY market_cap DESC LIMIT top_n *)

\* variant of JoinRows: the WHERE clause lacks "p.close > 0"
JoinRows_NoPositiveClose(date) ==
    LET caps == {m \in daily_market_cap : m.date = date /\ m.market_cap # <<>>}
        prices == {p \in daily_stock_prices : p.date = date /\ p.close # <<>>}
    IN {[symbol |-> mp[1].symbol, exchange |-> mp[1].exchange,
         market_cap |-> R(mp[1].market_cap[1]), price |-> R(mp[2].close[1])] :
            mp \in {x \in caps \X prices :
                        /\ x[1].symbol = x[2].symbol
                        /\ x[1].date = x[2].date
                        /\ x[1].exchange = x[2].exchange}}

\* rows of the join that pass the WHERE clause for one date, as stock dicts
JoinRows(date) ==
    LET caps == {m \in daily_market_cap : m.date = date /\ m.market_cap # <<>>}
        prices == {p \in daily_stock_prices :
                      p.date = date /\ p.close # <<>> /\ p.close[1] > 0}
    IN {[symbol |-> mp[1].symbol, exchange |-> mp[1].exchange,
         market_cap |-> R(mp[1].market_cap[1]), price |-> R(mp[2].close[1])] :
            mp \in {x \in caps \X prices :
                        /\ x[1].symbol = x[2].symbol
                        /\ x[1].date = x[2].date
                        /\ x[1].exchange = x[2].exchange}}

\* ORDER BY market_cap DESC: every ordering of the rows with non-increasing
\* market_cap; the query names no second sort key, so rows of equal
\* market_cap come in an order the database engine chooses
OrderByCapDesc(rows) ==
    {p \in Perms(rows) : \A i, j \in 1..Len(p) : i < j => RLe(p[j].market_cap, p[i].market_cap)}

\* the lists fetchall() can return for (date, top_n)
QueryTopN(date, top_n) ==
    LET rows == JoinRows(date)
    IN IF rows = {} THEN {<<>>}
       ELSE {SubSeq(p, 1, Min2(top_n, Len(p))) : p \in OrderByCapDesc(rows)}

\* "if not result: raise ValueError"
TopNRaises(result) == result = <<>>

----------------------------------------------------------------------------
(* _calculate_equal_weights *)

\* variant of CalculateEqualWeights: weights proportional to market_cap
CalculateEqualWeights_CapWeighted(stocks, nav) ==
    LET n == Len(stocks)
        total == RSumSeq([i \in 1..n |-> stocks[i].market_cap])
    IN IF n = 0 THEN <<>>
       ELSE [i \in 1..n |->
                [symbol |-> stocks[i].symbol, exchange |-> stocks[i].exchange,
                 market_cap |-> stocks[i].market_cap, price |-> stocks[i].price,
                 weight |-> RDiv(stocks[i].market_cap, total),
                 notional_value |-> RMul(nav, RDiv(stocks[i].market_cap, total)),
                 shares |-> RDiv(RMul(nav, RDiv(stocks[i].market_cap, total)),
                                 stocks[i].price)]]

CalculateEqualWeights(stocks, nav) ==
    LET n == Len(stocks)
        weight == RDiv(R(1), R(n))
        notional_per_stock == RMul(nav, weight)
    IN IF n = 0 THEN <<>>
       ELSE [i \in 1..n |->
                [symbol |-> stocks[i].symbol, exchange |-> stocks[i].exchange,
                 market_cap |-> stocks[i].market_cap, price |-> stocks[i].price,
                 weight |-> weight,
                 notional_value |-> notional_per_stock,
                 shares |-> RDiv(notional_per_stock, stocks[i].price)]]

(* _calculate_nav *)

RECURSIVE NavFrom(_, _)
NavFrom(nav, portfolio) ==
    IF portfolio = <<>> THEN nav
    ELSE NavFrom(RAdd(nav, RMul(Head(portfolio).shares, Head(portfolio).price)), Tail(portfolio))

CalculateNav(portfolio) == NavFrom(R(0), portfolio)

----------------------------------------------------------------------------
(* _update_portfolio_prices *)

\* fetchone() of the close of (symbol, exchange, date): the set of matching rows
PriceRows(position, date) ==
    {p \in daily_stock_prices :
        p.symbol = position.symbol /\ p.exchange = position.exchange /\ p.date = date}

\* variant of HasPrice: "if result and result[0] is not None", a zero close
\* becomes the position's price
HasPrice_NotNull(position, date) ==
    \E p \in PriceRows(position, date) : p.close # <<>>

\* "if result and result[0]": a row exists and its close is neither NULL nor 0
HasPrice(position, date) ==
    \E p \in PriceRows(position, date) : p.close # <<>> /\ p.close[1] # 0

\* variant of Revalue: the implied share count is stored as the position's
\* shares
Revalue_SharesFromCap(position, date) ==
    LET result == CHOOSE p \in PriceRows(position, date) : p.close # <<>>
        outstanding_shares == RFloorDiv(position.market_cap, position.price)
        price == R(result.close[1])
    IN [position EXCEPT !.price = price,
                        !.shares = outstanding_shares,
                        !.notional_value = RMul(outstanding_shares, price),
                        !.market_cap = RMul(outstanding_shares, price)]

\* variant of Revalue: the new close is not written to the position
Revalue_StalePrice(position, date) ==
    [position EXCEPT !.notional_value = RMul(position.shares, position.price)]

\* the position dict after the assignments of the if-branch
Revalue(position, date) ==
    LET result == CHOOSE p \in PriceRows(position, date) : p.close # <<>>
        outstanding_shares == RFloorDiv(position.market_cap, position.price)
        price == R(result.close[1])
    IN [position EXCEPT !.price = price,
                        !.notional_value = RMul(position.shares, price),
                        !.market_cap = RMul(outstanding_shares, price)]

\* the returned list updated_portfolio
UpdatePortfolioPrices(portfolio, date) ==
    LET Priced(position) == HasPrice(position, date)
        kept == SelectSeq(portfolio, Priced)
    IN [i \in 1..Len(kept) |-> Revalue(kept[i], date)]

\* variant of MutatedInPlace: the caller's list becomes the returned list
MutatedInPlace_Returned(portfolio, date) == UpdatePortfolioPrices(portfolio, date)

\* the caller's list after the call: it holds the same dicts, updated in place
MutatedInPlace(portfolio, date) ==
    [i \in 1..Len(portfolio) |->
        IF HasPrice(portfolio[i], date) THEN Revalue(portfolio[i], date) ELSE portfolio[i]]

----------------------------------------------------------------------------
(* _detect_composition_changes *)

\* variant of DetectCompositionChanges: stocks are compared by symbol alone
DetectCompositionChanges_BySymbol(old_symbols, new_symbols, old_portfolio, new_portfolio) ==
    LET old_names == {k[1] : k \in old_symbols}
        new_names == {k[1] : k \in new_symbols}
        IsAdded(s) == s.symbol \notin old_names
        IsRemoved(s) == s.symbol \notin new_names
    IN [added_stocks |-> SelectSeq(new_portfolio, IsAdded),
        removed_stocks |-> SelectSeq(old_portfolio, IsRemoved)]

DetectCompositionChanges(old_symbols, new_symbols, old_portfolio, new_portfolio) ==
    LET added_symbols == new_symbols \ old_symbols
        removed_symbols == old_symbols \ new_symbols
        IsAdded(s) == KeyOf(s) \in added_symbols
        IsRemoved(s) == KeyOf(s) \in removed_symbols
    IN [added_stocks |-> SelectSeq(new_portfolio, IsAdded),
        removed_stocks |-> SelectSeq(old_portfolio, IsRemoved)]

----------------------------------------------------------------------------
(* Persistence: delete-then-insert per (date, top_n) *)

SavePerformance(table, date, nav, daily_return, cumulative_return, top_n) ==
    {r \in table : ~(r.date = date /\ r.top_n = top_n)}
    \cup {[date |-> date, nav |-> nav, daily_return |-> daily_return,
            cumulative_return |-> cumulative_return, top_n |-> top_n]}

\* variant of SaveComposition: the DELETE names top_n alone
SaveComposition_AllDates(table, date, portfolio, top_n) ==
    {r \in table : r.top_n # top_n}
    \cup {[date |-> date, symbol |-> portfolio[i].symbol, exchange |-> portfolio[i].exchange,
            market_cap |-> portfolio[i].market_cap, price |-> portfolio[i].price,
            shares |-> portfolio[i].shares, weight |-> portfolio[i].weight,
            notional_value |-> portfolio[i].notional_value, top_n |-> top_n] :
                i \in 1..Len(portfolio)}

SaveComposition(table, date, portfolio, top_n) ==
    {r \in table : ~(r.date = date /\ r.top_n = top_n)}
    \cup {[date |-> date, symbol |-> portfolio[i].symbol, exchange |-> portfolio[i].exchange,
            market_cap |-> portfolio[i].market_cap, price |-> portfolio[i].price,
            shares |-> portfolio[i].shares, weight |-> portfolio[i].weight,
            notional_value |-> portfolio[i].notional_value, top_n |-> top_n] :
                i \in 1..Len(portfolio)}

ChangeRows(date, stocks, change_type, top_n) ==
    {[date |-> date, symbol |-> stocks[i].symbol, exchange |-> stocks[i].exchange,
      change_type |-> change_type, market_cap |-> stocks[i].market_cap, top_n |-> top_n] :
          i \in 1..Len(stocks)}

\* variant of SaveCompositionChanges: the REMOVED rows are not written
SaveCompositionChanges_AddedOnly(table, date, added, removed, top_n) ==
    {r \in table : ~(r.date = date /\ r.top_n = top_n)}
    \cup ChangeRows(date, added, "ADDED", top_n)

SaveCompositionChanges(table, date, added, removed, top_n) ==
    {r \in table : ~(r.date = date /\ r.top_n = top_n)}
    \cup ChangeRows(date, added, "ADDED", top_n)
    \cup ChangeRows(date, removed, "REMOVED", top_n)

----------------------------------------------------------------------------
(* The market data store: the states ingestion can leave it in, one row per *)
(* (symbol, date, exchange) in each table                                   *)

\* a cell is {} (no row), {<<>>} (a row holding NULL) or {<<v>>}
NoRow == {}
Null == {<<>>}
Val(v) == {<<v>>}
Cells(c1, c2, c3) == (K1 :> c1) @@ (K2 :> c2) @@ (K3 :> c3)
NoRows == Cells(NoRow, NoRow, NoRow)

EmptyDay == [close |-> NoRows, cap |-> NoRows]
\* all three stocks eligible, market caps K1 > K2 > K3
FullDay == [close |-> Cells(Val(1), Val(2), Val(1)), cap |-> Cells(Val(3), Val(2), Val(1))]
\* all three eligible, market caps K3 > K2 > K1
SwapDay == [close |-> Cells(Val(2), Val(1), Val(2)), cap |-> Cells(Val(1), Val(2), Val(3))]
\* all three eligible, K1 and K2 with equal market caps above K3
TieDay == [close |-> Cells(Val(1), Val(1), Val(2)), cap |-> Cells(Val(2), Val(2), Val(1))]
\* a NULL close, a close with a NULL market cap, and one eligible stock
PartialDay == [close |-> Cells(Null, Val(3), Val(2)), cap |-> Cells(Val(3), Null, Val(1))]
\* closes but no row of the join: a negative close, a zero close without a
\* market cap row, a close with a NULL market cap
NoJoinDay == [close |-> Cells(Val(-1), Val(0), Val(2)), cap |-> Cells(Val(1), NoRow, Null)]

\* what a date on or after the first start date can hold
DayProfiles == {EmptyDay, FullDay, SwapDay, TieDay, PartialDay, NoJoinDay}
\* what a date before every start date can hold
EarlyProfiles == {EmptyDay, FullDay}

\* the dates before every start date that may carry data: the far end of the
\* lookback window of MinStart (just outside that of MinStart + 1) and the
\* day before MinStart
EarlyDates == {MinStart - max_attempts, MinStart - 1}
LateDates == MinStart..LastDate
DataDates == EarlyDates \cup LateDates

Stores == {f \in [DataDates -> DayProfiles] : \A d \in EarlyDates : f[d] \in EarlyProfiles}

DayRows(date, cells, column) ==
    UNION {{[date |-> date, symbol |-> k[1], exchange |-> k[2]] @@ (column :> v) : v \in cells[k]} :
              k \in Keys}

PriceTable(f) == UNION {DayRows(d, f[d].close, "close") : d \in DataDates}
CapTable(f) == UNION {DayRows(d, f[d].cap, "market_cap") : d \in DataDates}

----------------------------------------------------------------------------
(* build_index *)

NoReq == [start_date |-> 0, end_date |-> <<>>, top_n |-> 0, initial_nav |-> R(0)]
NoResponse == [final_nav |-> R(0), total_return |-> R(0), days_processed |-> 0, end_date |-> 0]
NoLog == [date |-> 0, kind |-> "none", revalued |-> <<>>, top |-> <<>>]
NoRun == [kind |-> "none", performance |-> {}, composition |-> {}]
NoCall == [fn |-> "none"]
NoCache == {}
NoReply == [op |-> "none"]

\* the end dates a request names: the first start date, before Today
EndDates == {MinStart}

\* the requests the API layer lets through (BuildIndexRequest): end_date is
\* absent (the build then runs to Today) or a date from start_date on
Requests ==
    {[start_date |-> x[1], end_date |-> x[2], top_n |-> x[3], initial_nav |-> R(x[4])] :
        x \in {y \in StartDates \X ({<<>>} \cup {<<d>> : d \in EndDates})
                        \X (1..MaxTopN) \X NavValues :
                    y[2] = <<>> \/ y[2][1] >= y[1]}}

\* end_dt: the parsed end_date, or datetime.now()
EndDt(r) == IF r.end_date # <<>> THEN r.end_date[1] ELSE Today

\* _get_top_n_stocks raises ValueError for (date, top_n)
GetTopNRaises(date, top_n) == \E result \in QueryTopN(date, top_n) : TopNRaises(result)

\* variant of InitLoop: "while attempts <= max_attempts", one probe too many
RECURSIVE InitLoop_OffByOne(_, _, _, _)
InitLoop_OffByOne(date, attempts, top_n, seen) ==
    IF attempts <= max_attempts
    THEN IF GetTopNRaises(date, top_n)
         THEN InitLoop_OffByOne(date - 1, attempts + 1, top_n, seen \cup {date})
         ELSE [found |-> TRUE, init_date |-> date, attempts |-> attempts,
               probed |-> seen \cup {date}]
    ELSE [found |-> FALSE, init_date |-> date, attempts |-> attempts, probed |-> seen]

\* the INIT loop "while attempts < max_attempts": the values of init_date and
\* attempts when it ends, whether it ended by break, and the dates it probed
RECURSIVE InitLoop(_, _, _, _)
InitLoop(date, attempts, top_n, seen) ==
    IF attempts < max_attempts
    THEN IF GetTopNRaises(date, top_n)
         THEN InitLoop(date - 1, attempts + 1, top_n, seen \cup {date})
         ELSE [found |-> TRUE, init_date |-> date, attempts |-> attempts,
               probed |-> seen \cup {date}]
    ELSE [found |-> FALSE, init_date |-> date, attempts |-> attempts, probed |-> seen]

\* variant of DeleteAll: the DELETE is lost and the rows stay
DeleteAll_Keep(table) == table

\* reset_index_tables: "DELETE FROM <table> WHERE true"
DeleteAll(table) == {r \in table : FALSE}

\* percentage change ((a - b) / b) * 100
PctChange(a, b) == RMul(RDiv(RSub(a, b), b), R(100))

\* variant of EventLoopIdle: build_index yields to the event loop between days
EventLoopIdle_Yielding == TRUE

\* the event loop can run a handler: build_index is a coroutine without an
\* await, so nothing else runs between its first and its last statement
EventLoopIdle == phase \in {"IDLE", "DONE", "FAILED", "ABORTED"}

\* build_index(r) up to the ITERATE phase, given the outcome of its INIT loop
\* and the rows its successful probe returned: reset, initial allocation
StartWith(r, loop, top_stocks) ==
    LET failed == loop.attempts = max_attempts \/ ~loop.found
    IN /\ req' = r
       /\ first_run' = IF phase = "DONE" /\ req = r
                        THEN [kind |-> "same", performance |-> index_performance,
                              composition |-> index_composition]
                        ELSE IF phase = "DONE" /\ index_performance # {}
                        THEN [kind |-> "other", performance |-> {}, composition |-> {}]
                        ELSE NoRun
       /\ index_performance' = DeleteAll(index_performance)
       /\ composition_changes' = DeleteAll(composition_changes)
       /\ probed' = loop.probed
       /\ init_date' = loop.init_date
       /\ current_nav' = r.initial_nav
       /\ current_date' = r.start_date
       /\ days_processed' = 0
       /\ day_log' = NoLog
       /\ response' = NoResponse
       /\ IF failed
          THEN /\ phase' = "FAILED"
               /\ index_composition' = DeleteAll(index_composition)
               /\ prev_portfolio' = <<>>
          ELSE LET portfolio == CalculateEqualWeights(top_stocks, r.initial_nav)
               IN /\ phase' = "ITERATING"
                  /\ prev_portfolio' = portfolio
                  /\ index_composition' =
                        SaveComposition(DeleteAll(index_composition), loop.init_date,
                                        portfolio, r.top_n)

\* the rows the INIT loop's last probe returned (none when the loop failed)
InitTops(loop, top_n) ==
    IF loop.attempts = max_attempts \/ ~loop.found
    THEN {<<>>}
    ELSE QueryTopN(loop.init_date, top_n)

\* build_index up to the ITERATE phase, called with a valid request
BuildStart ==
    /\ EventLoopIdle
    /\ \E start_date \in StartDates, top_n \in 1..MaxTopN :
        LET loop == InitLoop(start_date - 1, 0, top_n, {})
        IN \E r \in Requests, top_stocks \in InitTops(loop, top_n) :
            /\ r.start_date = start_date
            /\ r.top_n = top_n
            /\ StartWith(r, loop, top_stocks)
    /\ UNCHANGED <<store_vars, fn_call, api_vars>>

\* "position['market_cap'] // position['price']" raises ZeroDivisionError for
\* a carried position whose price is zero; no handler of build_index catches it
DayRaises == \E i \in 1..Len(prev_portfolio) : prev_portfolio[i].price = R(0)

\* variant of NextDate: the date is not advanced
NextDate_Stuck(date) == date

\* "current_date += timedelta(days=1)"
NextDate(date) == date + 1

\* one pass of "while current_date <= end_dt" that computes no NAV: it ends at
\* "if not portfolio: continue", or build_index ends in the ZeroDivisionError
DaySkipped ==
    /\ phase = "ITERATING"
    /\ current_date <= EndDt(req)
    /\ DayRaises \/ UpdatePortfolioPrices(prev_portfolio, current_date) = <<>>
    /\ phase' = IF DayRaises THEN "ABORTED" ELSE phase
    /\ prev_portfolio' = IF DayRaises THEN prev_portfolio
                         ELSE MutatedInPlace(prev_portfolio, current_date)
    /\ day_log' = [date |-> current_date, kind |-> IF DayRaises THEN "raised" ELSE "skipped",
                   revalued |-> <<>>, top |-> <<>>]
    /\ current_date' = IF DayRaises THEN current_date ELSE NextDate(current_date)
    /\ UNCHANGED <<store_vars, table_vars, req, init_date, current_nav,
                   days_processed, response, probed, first_run, fn_call, api_vars>>

\* the values of one pass up to and including _save_performance
DayNav == CalculateNav(UpdatePortfolioPrices(prev_portfolio, current_date))
DayReturn == IF RGt(current_nav, R(0)) THEN PctChange(DayNav, current_nav) ELSE R(0)
\* variant of DayCumulative: the return is taken on the previous nav
DayCumulative_OnPrevNav == PctChange(DayNav, current_nav)
DayCumulative == PctChange(DayNav, req.initial_nav)

\* one pass in which _get_top_n_stocks raises ValueError after the performance
\* row was saved: "except ValueError: pass"
DayNoTopN ==
    /\ phase = "ITERATING"
    /\ current_date <= EndDt(req)
    /\ ~DayRaises
    /\ UpdatePortfolioPrices(prev_portfolio, current_date) # <<>>
    /\ GetTopNRaises(current_date, req.top_n)
    /\ current_nav' = DayNav
    /\ index_performance' = SavePerformance(index_performance, current_date, DayNav,
                                             DayReturn, DayCumulative, req.top_n)
    /\ prev_portfolio' = MutatedInPlace(prev_portfolio, current_date)
    /\ day_log' = [date |-> current_date, kind |-> "no_top_n",
                   revalued |-> UpdatePortfolioPrices(prev_portfolio, current_date), top |-> <<>>]
    /\ current_date' = NextDate(current_date)
    /\ UNCHANGED <<store_vars, index_composition, composition_changes, phase, req, init_date,
                   days_processed, response, probed, first_run, fn_call, api_vars>>

\* one complete pass: revalue, NAV, returns, reconstitution, rebalance, save
DayProcessed ==
    /\ phase = "ITERATING"
    /\ current_date <= EndDt(req)
    /\ ~DayRaises
    /\ UpdatePortfolioPrices(prev_portfolio, current_date) # <<>>
    /\ \E new_top_stocks \in QueryTopN(current_date, req.top_n),
          portfolio \in {UpdatePortfolioPrices(prev_portfolio, current_date)},
          nav \in {DayNav}, daily_return \in {DayReturn}, cumulative_return \in {DayCumulative} :
        /\ ~TopNRaises(new_top_stocks)
        /\ \E changes \in {DetectCompositionChanges(KeySet(portfolio), KeySet(new_top_stocks),
                                                     portfolio, new_top_stocks)},
                 rebalanced \in {CalculateEqualWeights(new_top_stocks, nav)} :
              /\ current_nav' = nav
              /\ index_performance' = SavePerformance(index_performance, current_date, nav,
                                                       daily_return, cumulative_return,
                                                       req.top_n)
              /\ composition_changes' =
                    IF changes.added_stocks # <<>> \/ changes.removed_stocks # <<>>
                    THEN SaveCompositionChanges(composition_changes, current_date,
                                                changes.added_stocks, changes.removed_stocks,
                                                req.top_n)
                    ELSE composition_changes
              /\ index_composition' = SaveComposition(index_composition, current_date,
                                                       rebalanced, req.top_n)
              /\ prev_portfolio' = rebalanced
              /\ day_log' = [date |-> current_date, kind |-> "processed",
                             revalued |-> portfolio, top |-> new_top_stocks]
    /\ days_processed' = days_processed + 1
    /\ current_date' = NextDate(current_date)
    /\ UNCHANGED <<store_vars, phase, req, init_date, response, probed, first_run, fn_call,
                   api_vars>>

\* the loop has ended: total_return and the BuildIndexResponse
BuildReturn ==
    /\ phase = "ITERATING"
    /\ current_date > EndDt(req)
    /\ phase' = "DONE"
    /\ response' = [final_nav |-> current_nav,
                    total_return |-> PctChange(current_nav, req.initial_nav),
                    days_processed |-> days_processed,
                    end_date |-> EndDt(req)]
    /\ UNCHANGED <<store_vars, table_vars, req, init_date, current_date, current_nav,
                   prev_portfolio, days_processed, probed, day_log, first_run, fn_call, api_vars>>

----------------------------------------------------------------------------
(* The service: builds one after another over a fixed market data store *)

Init ==
    /\ \E f \in Stores :
        /\ daily_stock_prices = PriceTable(f)
        /\ daily_market_cap = CapTable(f)
    /\ index_performance = {}
    /\ index_composition = {}
    /\ composition_changes = {}
    /\ phase = "IDLE"
    /\ req = NoReq
    /\ init_date = 0
    /\ current_date = 0
    /\ current_nav = R(0)
    /\ prev_portfolio = <<>>
    /\ days_processed = 0
    /\ response = NoResponse
    /\ probed = {}
    /\ day_log = NoLog
    /\ first_run = NoRun
    /\ fn_call = NoCall
    /\ cache = NoCache
    /\ reply = NoReply
    /\ pending = 0

Next ==
    \/ BuildStart
    \/ DaySkipped
    \/ DayNoTopN
    \/ DayProcessed
    \/ BuildReturn

Spec == Init /\ [][Next]_vars

\* a build that has started keeps running: its loop passes and its return are
\* the consecutive statements of one coroutine
BuildSteps == DaySkipped \/ DayNoTopN \/ DayProcessed \/ BuildReturn
\* the stores with FullDay on the day before the first start date and no
\* earlier data
InitLive ==
    /\ Init
    /\ \A p \in daily_stock_prices : p.date >= MinStart - 1
    /\ \E p \in daily_stock_prices : p.date = MinStart - 1
SpecLive == InitLive /\ [][Next]_vars /\ WF_vars(BuildSteps)

----------------------------------------------------------------------------
(* The HTTP layer: request validation, the read queries and their cache *)

\* a date string is its spelling and the day it spells: "padded" is
\* YYYY-MM-DD ('2024-01-05'), "unpadded" leaves out a leading zero of the
\* month or the day ('2024-1-5'), "garbage" is any other text
DateForms == {"padded", "unpadded", "garbage"}
DateStr(form, day) == [form |-> form, day |-> day]

\* datetime.strptime(v, '%Y-%m-%d'): <<day>>, or <<>> when it raises
\* ValueError; %m and %d take one or two digits
Strptime(v) == IF v.form \in {"padded", "unpadded"} THEN <<v.day>> ELSE <<>>

\* Field(..., ge=1, le=500)
TopNLimit == 500
\* the bodies POST /build-index receives: a valid body and every body that
\* differs from it in one field
RawTopNs == {0, TopNLimit + 1} \cup (1..MaxTopN)
RawNavs == {0} \cup NavValues
RawEndDates == {<<>>, <<DateStr("garbage", MinStart)>>}
                  \cup {<<DateStr("padded", d)>> : d \in {MinStart - 1} \cup EndDates}
BaseRequest ==
    [start_date |-> DateStr("padded", MinStart), end_date |-> <<>>, top_n |-> 1,
     initial_nav |-> Once(NavValues)]
RawRequests ==
    {[BaseRequest EXCEPT !.start_date = DateStr(f, MinStart)] : f \in DateForms}
    \cup {[BaseRequest EXCEPT !.end_date = e] : e \in RawEndDates}
    \cup {[BaseRequest EXCEPT !.top_n = n] : n \in RawTopNs}
    \cup {[BaseRequest EXCEPT !.initial_nav = v] : v \in RawNavs}

\* BuildIndexRequest: the field constraints and the two validators
ValidRequest(raw) ==
    /\ Strptime(raw.start_date) # <<>>
    /\ raw.end_date # <<>> =>
          /\ Strptime(raw.end_date[1]) # <<>>
          /\ ~(Strptime(raw.end_date[1])[1] < Strptime(raw.start_date)[1])
    /\ raw.top_n >= 1
    /\ raw.top_n <= TopNLimit
    /\ raw.initial_nav > 0

\* the arguments as build_index reads them: it parses both dates again
ParsedRequest(raw) ==
    [start_date |-> Strptime(raw.start_date)[1],
     end_date |-> IF raw.end_date = <<>> THEN <<>> ELSE Strptime(raw.end_date[1]),
     top_n |-> raw.top_n,
     initial_nav |-> R(raw.initial_nav)]

\* a POST /build-index request reaches the server, whatever the server is doing
MaxPending == 1
Arrive ==
    /\ pending < MaxPending
    /\ pending' = pending + 1
    /\ UNCHANGED <<store_vars, table_vars, build_vars, fn_call, cache, reply>>

\* the event loop takes a received POST /build-index: FastAPI builds the
\* BuildIndexRequest (422 when it does not validate) and then calls the
\* handler, which runs build_index up to its ITERATE phase
PostBuildIndex ==
    /\ EventLoopIdle
    /\ pending > 0
    /\ pending' = pending - 1
    /\ \E raw \in RawRequests :
        IF ValidRequest(raw)
        THEN LET r == ParsedRequest(raw)
                 loop == InitLoop(r.start_date - 1, 0, r.top_n, {})
             IN /\ \E top_stocks \in InitTops(loop, r.top_n) : StartWith(r, loop, top_stocks)
                /\ reply' = [op |-> "build_index", raw |-> raw, status |-> "started"]
        ELSE /\ reply' = [op |-> "build_index", raw |-> raw, status |-> "rejected"]
             /\ UNCHANGED <<table_vars, build_vars>>
    /\ UNCHANGED <<store_vars, fn_call, cache>>

\* RedisCache.get / RedisCache.set on the modelled cache
CacheGet(key) == {e.value : e \in {x \in cache : x.key = key}}
CacheSet(key, value) == {e \in cache : e.key # key} \cup {[key |-> key, value |-> value]}

\* the arguments of the read queries: padded date strings, compared by the
\* database as the dates they spell
QueryStarts == {MinStart}
\* get_performance is asked without an end date, get_composition_changes with one
PerformanceEnds == {<<>>}
ChangesEnds == {<<MinStart>>}
QueryDates_Composition == {MinStart}

\* "if not end_date: end_date = datetime.now().strftime(...)"
EndOrNow(end_date) == IF end_date = <<>> THEN Today ELSE end_date[1]

\* variant of Reply: a query that matched no row answers with an empty list
Reply_EmptyList(op, key, cached, rows, body) ==
    IF cached # {}
    THEN [op |-> op, key |-> key, hit |-> TRUE, status |-> "ok", body |-> Once(cached)]
    ELSE [op |-> op, key |-> key, hit |-> FALSE, status |-> "ok", body |-> body]

\* the outcome of a read query: served from the cache, raised ValueError
\* (HTTP 400 with a "No ... data found" detail), or built from the rows
Reply(op, key, cached, rows, body) ==
    IF cached # {}
    THEN [op |-> op, key |-> key, hit |-> TRUE, status |-> "ok", body |-> Once(cached)]
    ELSE IF rows = {}
    THEN [op |-> op, key |-> key, hit |-> FALSE, status |-> "not_found", body |-> {}]
    ELSE [op |-> op, key |-> key, hit |-> FALSE, status |-> "ok", body |-> body]

\* the rows SELECTed by get_performance and the list it makes of them
PerformanceRows(start_date, end_date) ==
    {r \in index_performance : r.date >= start_date /\ r.date <= end_date}
PerformanceBody(rows) ==
    {[date |-> r.date, nav |-> r.nav, daily_return |-> r.daily_return,
      cumulative_return |-> r.cumulative_return] : r \in rows}

\* variant of GetPerformance: the not-found outcome is written to the cache
GetPerformance_CachingNotFound ==
    /\ EventLoopIdle
    /\ \E start_date \in QueryStarts, end_date \in PerformanceEnds, read_ok, write_ok \in BOOLEAN :
        LET key == <<"perf", start_date, EndOrNow(end_date)>>
            cached == IF read_ok THEN CacheGet(key) ELSE {}
            rows == PerformanceRows(start_date, EndOrNow(end_date))
        IN /\ reply' = Reply("get_performance", key, cached, rows, PerformanceBody(rows))
           /\ cache' = IF cached = {} /\ write_ok
                       THEN CacheSet(key, PerformanceBody(rows))
                       ELSE cache
    /\ UNCHANGED <<store_vars, table_vars, build_vars, fn_call, pending>>

\* get_performance; the cache read and the cache write may each fail, which
\* RedisCache turns into a miss and into no write
GetPerformance ==
    /\ EventLoopIdle
    /\ \E start_date \in QueryStarts, end_date \in PerformanceEnds, read_ok, write_ok \in BOOLEAN :
        LET key == <<"perf", start_date, EndOrNow(end_date)>>
            cached == IF read_ok THEN CacheGet(key) ELSE {}
            rows == PerformanceRows(start_date, EndOrNow(end_date))
        IN /\ reply' = Reply("get_performance", key, cached, rows, PerformanceBody(rows))
           /\ cache' = IF cached = {} /\ rows # {} /\ write_ok
                       THEN CacheSet(key, PerformanceBody(rows))
                       ELSE cache
    /\ UNCHANGED <<store_vars, table_vars, build_vars, fn_call, pending>>

\* the rows SELECTed by get_composition and the list it makes of them
CompositionRows(date) == {r \in index_composition : r.date = date}
CompositionBody(rows) ==
    {[symbol |-> r.symbol, exchange |-> r.exchange, market_cap |-> r.market_cap,
      price |-> r.price, shares |-> r.shares, weight |-> r.weight,
      notional_value |-> r.notional_value] : r \in rows}

\* variant of GetComposition: the rows read are deleted from the table
GetComposition_Consuming ==
    /\ EventLoopIdle
    /\ \E date \in QueryDates_Composition :
        LET key == <<"comp", date>>
            rows == CompositionRows(date)
        IN /\ reply' = Reply("get_composition", key, CacheGet(key), rows, CompositionBody(rows))
           /\ index_composition' = index_composition \ rows
    /\ UNCHANGED <<store_vars, index_performance, composition_changes, build_vars, fn_call,
                   cache, pending>>

\* variant of GetComposition: a cache read that raises fails the query
GetComposition_CacheRaises ==
    /\ EventLoopIdle
    /\ \E date \in QueryDates_Composition, read_ok, write_ok \in BOOLEAN :
        LET key == <<"comp", date>>
            rows == CompositionRows(date)
        IN /\ reply' = IF read_ok
                       THEN Reply("get_composition", key, CacheGet(key), rows, CompositionBody(rows))
                       ELSE [op |-> "get_composition", key |-> key, hit |-> FALSE,
                             status |-> "error", body |-> {}]
           /\ cache' = IF read_ok /\ CacheGet(key) = {} /\ rows # {} /\ write_ok
                       THEN CacheSet(key, CompositionBody(rows))
                       ELSE cache
    /\ UNCHANGED <<store_vars, table_vars, build_vars, fn_call, pending>>

GetComposition ==
    /\ EventLoopIdle
    /\ \E date \in QueryDates_Composition, read_ok, write_ok \in BOOLEAN :
        LET key == <<"comp", date>>
            cached == IF read_ok THEN CacheGet(key) ELSE {}
            rows == CompositionRows(date)
        IN /\ reply' = Reply("get_composition", key, cached, rows, CompositionBody(rows))
           /\ cache' = IF cached = {} /\ rows # {} /\ write_ok
                       THEN CacheSet(key, CompositionBody(rows))
                       ELSE cache
    /\ UNCHANGED <<store_vars, table_vars, build_vars, fn_call, pending>>

\* the rows SELECTed by get_composition_changes and its list of change days
ChangeRowsIn(start_date, end_date) ==
    {r \in composition_changes : r.date >= start_date /\ r.date <= end_date}
ChangesBody(rows) ==
    {[date |-> d,
      stocks_added |-> {<<r.symbol, r.exchange>> :
                          r \in {x \in rows : x.date = d /\ x.change_type = "ADDED"}},
      stocks_removed |-> {<<r.symbol, r.exchange>> :
                            r \in {x \in rows : x.date = d /\ x.change_type # "ADDED"}}] :
        d \in {r.date : r \in rows}}

\* get_composition_changes: no "if not result" test, the response is built
\* from whatever rows matched, cached and returned
GetCompositionChanges ==
    /\ EventLoopIdle
    /\ \E start_date \in QueryStarts, end_date \in ChangesEnds, read_ok, write_ok \in BOOLEAN :
        LET key == <<"changes", start_date, EndOrNow(end_date)>>
            cached == IF read_ok THEN CacheGet(key) ELSE {}
            rows == ChangeRowsIn(start_date, EndOrNow(end_date))
            body == ChangesBody(rows)
        IN /\ reply' = IF cached # {}
                       THEN [op |-> "get_composition_changes", key |-> key, hit |-> TRUE,
                             status |-> "ok", body |-> Once(cached)]
                       ELSE [op |-> "get_composition_changes", key |-> key, hit |-> FALSE,
                             status |-> "ok", body |-> body]
           /\ cache' = IF cached = {} /\ write_ok THEN CacheSet(key, body) ELSE cache
    /\ UNCHANGED <<store_vars, table_vars, build_vars, fn_call, pending>>

\* clear_cache: RedisCache.clear_all
ClearCache ==
    /\ EventLoopIdle
    /\ cache # {}
    /\ cache' = {}
    /\ reply' = [op |-> "clear_cache", status |-> "ok"]
    /\ UNCHANGED <<store_vars, table_vars, build_vars, fn_call, pending>>

\* reset_database: the three tables are dropped and created again, empty;
\* the cache is not touched
ResetDatabase ==
    /\ EventLoopIdle
    /\ index_performance' = DeleteAll(index_performance)
    /\ index_composition' = DeleteAll(index_composition)
    /\ composition_changes' = DeleteAll(composition_changes)
    /\ reply' = [op |-> "reset_database", status |-> "ok"]
    /\ UNCHANGED <<store_vars, build_vars, fn_call, cache, pending>>

\* an entry reaches its time-to-live (setex with settings.REDIS_TTL)
CacheExpire ==
    /\ \E e \in cache : cache' = cache \ {e}
    /\ UNCHANGED <<store_vars, table_vars, build_vars, fn_call, reply, pending>>

\* market data for the API runs: the day before MinStart is a trading day,
\* MinStart has no row, closes without a join row, or a changed Top-N
ApiStores ==
    {f \in Stores :
        /\ f[MinStart - max_attempts] = EmptyDay
        /\ f[MinStart - 1] = FullDay
        /\ f[MinStart] \in {EmptyDay, NoJoinDay, SwapDay}
        /\ \A d \in LateDates \ {MinStart} : f[d] = FullDay}

InitApi ==
    /\ Init
    /\ \E f \in ApiStores :
        /\ daily_stock_prices = PriceTable(f)
        /\ daily_market_cap = CapTable(f)

NextApi ==
    \/ Arrive
    \/ PostBuildIndex
    \/ DaySkipped
    \/ DayNoTopN
    \/ DayProcessed
    \/ BuildReturn
    \/ GetPerformance
    \/ GetComposition
    \/ GetCompositionChanges
    \/ ClearCache
    \/ ResetDatabase
    \/ CacheExpire

SpecApi == InitApi /\ [][NextApi]_vars

----------------------------------------------------------------------------
(* Direct calls of the pure helpers on drawn arguments *)

IdleBuild ==
    /\ index_performance = {}
    /\ index_composition = {}
    /\ composition_changes = {}
    /\ phase = "IDLE"
    /\ req = NoReq
    /\ init_date = 0
    /\ current_date = 0
    /\ current_nav = R(0)
    /\ prev_portfolio = <<>>
    /\ days_processed = 0
    /\ response = NoResponse
    /\ probed = {}
    /\ day_log = NoLog
    /\ first_run = NoRun
    /\ cache = NoCache
    /\ reply = NoReply
    /\ pending = 0

\* lists of stock dicts with distinct keys, as _get_top_n_stocks returns them
StockLists(Prices, Caps) ==
    UNION {{l \in [1..n -> [symbol : {"A", "B"}, exchange : {"X", "Y"},
                             market_cap : {R(c) : c \in Caps}, price : {R(v) : v \in Prices}]] :
               /\ \A i \in 1..n : KeyOf(l[i]) \in Keys
               /\ \A i, j \in 1..n : KeyOf(l[i]) = KeyOf(l[j]) => i = j} : n \in 0..Cardinality(Keys)}

AllocPrices == {1, 2, 3}
AllocCaps == {1, 2}
AllocNavs == {R(-6), R(0), R(7), R(12), Rat(5, 2)}

\* _calculate_equal_weights applied to the drawn arguments
CallEqualWeights ==
    /\ fn_call.fn = "_calculate_equal_weights"
    /\ ~fn_call.returned
    /\ fn_call' = [fn_call EXCEPT !.returned = TRUE,
                                  !.result = CalculateEqualWeights(fn_call.stocks, fn_call.nav)]
    /\ UNCHANGED <<store_vars, table_vars, build_vars, api_vars>>

\* build_index, step 10, on the drawn lists: the two key sets and the call of
\* _detect_composition_changes
CallDetect ==
    /\ fn_call.fn = "_detect_composition_changes"
    /\ ~fn_call.returned
    /\ LET old_symbols == KeySet(fn_call.portfolio)
           new_symbols == KeySet(fn_call.new_top_stocks)
       IN fn_call' = [fn_call EXCEPT !.returned = TRUE,
                         !.result = DetectCompositionChanges(old_symbols, new_symbols,
                                        fn_call.portfolio, fn_call.new_top_stocks)]
    /\ UNCHANGED <<store_vars, table_vars, build_vars, api_vars>>

InitFn ==
    /\ daily_stock_prices = {}
    /\ daily_market_cap = {}
    /\ IdleBuild
    /\ \/ \E stocks \in StockLists(AllocPrices, AllocCaps), nav \in AllocNavs :
            fn_call = [fn |-> "_calculate_equal_weights", stocks |-> stocks, nav |-> nav,
                       returned |-> FALSE, result |-> <<>>]
       \/ \E portfolio \in StockLists({1}, {1}), new_top_stocks \in StockLists({2}, {2}) :
            fn_call = [fn |-> "_detect_composition_changes", portfolio |-> portfolio,
                       new_top_stocks |-> new_top_stocks, returned |-> FALSE,
                       result |-> [added_stocks |-> <<>>, removed_stocks |-> <<>>]]

NextFn == CallEqualWeights \/ CallDetect

SpecFn == InitFn /\ [][NextFn]_vars

\* a store for the Top-N query: any mix of cells on date MinStart, FullDay on
\* the next date, nothing on any other date
QueryCloseCells == {NoRow, Null, Val(0), Val(-1), Val(1)}
QueryCapCells == {NoRow, Null, Val(1), Val(2)}
QueryDates == {MinStart - 1, MinStart, MinStart + 1}

CallTopN ==
    /\ \E date \in QueryDates, top_n \in 1..MaxTopN :
        \E result \in QueryTopN(date, top_n) :
            fn_call' = [fn |-> "_get_top_n_stocks", date |-> date, top_n |-> top_n,
                        raised |-> TopNRaises(result), result |-> result]
    /\ UNCHANGED <<store_vars, table_vars, build_vars, api_vars>>

InitTopN ==
    /\ \E close \in [Keys -> QueryCloseCells], cap \in [Keys -> QueryCapCells] :
        /\ daily_stock_prices = DayRows(MinStart, close, "close")
                                   \cup DayRows(MinStart + 1, FullDay.close, "close")
        /\ daily_market_cap = DayRows(MinStart, cap, "market_cap")
                                 \cup DayRows(MinStart + 1, FullDay.cap, "market_cap")
    /\ IdleBuild
    /\ fn_call = NoCall

SpecTopN == InitTopN /\ [][CallTopN]_vars

----------------------------------------------------------------------------
(* Direct calls of the Portfolio Valuator: _update_portfolio_prices and
   _calculate_nav in the float arithmetic of the interpreter *)

\* the portfolios handed to _update_portfolio_prices: allocations of
\* ValuatorNav over lists of stocks with these prices and market caps
ValuatorPrices == {1, 2}
ValuatorCaps == {3}
ValuatorNav == R(12)
ValuatorPortfolios ==
    {CalculateEqualWeights(l, ValuatorNav) : l \in StockLists(ValuatorPrices, ValuatorCaps)}
\* the close cells of the target date
ValuatorCloseCells == {NoRow, Null, Val(0), Val(3)}

\* _update_portfolio_prices applied to the drawn portfolio on date MinStart
CallUpdatePrices ==
    /\ fn_call.fn = "_update_portfolio_prices"
    /\ ~fn_call.returned
    /\ fn_call' = [fn_call EXCEPT !.returned = TRUE,
                                  !.result = UpdatePortfolioPrices(fn_call.portfolio, fn_call.date)]
    /\ UNCHANGED <<store_vars, table_vars, build_vars, api_vars>>

\* a Python float keeps 53 significant bits and every operation rounds its
\* exact result to the nearest such number, ties to the even one; the model
\* keeps MantissaBits bits, on non-negative whole numbers
MantissaBits == 3
RECURSIVE Pow2(_)
Pow2(e) == IF e = 0 THEN 1 ELSE 2 * Pow2(e - 1)
\* the exponent e of the spacing 2^e of the floats around k
RECURSIVE SpacingExp(_, _)
SpacingExp(k, e) == IF k < Pow2(MantissaBits + e) THEN e ELSE SpacingExp(k, e + 1)
FloatRound(k) ==
    LET step == Pow2(SpacingExp(k, 0))
        q == k \div step
        rest == k % step
    IN IF 2 * rest < step THEN q * step
       ELSE IF 2 * rest > step THEN (q + 1) * step
       ELSE IF q % 2 = 0 THEN q * step ELSE (q + 1) * step

\* _calculate_nav on floats: "nav += position['shares'] * position['price']"
\* in list order, the product and the sum each rounded
RECURSIVE FloatNavFrom(_, _)
FloatNavFrom(nav, portfolio) ==
    IF portfolio = <<>> THEN nav
    ELSE FloatNavFrom(FloatRound(nav + FloatRound(Head(portfolio).shares * Head(portfolio).price)),
                      Tail(portfolio))
FloatCalculateNav(portfolio) == FloatNavFrom(0, portfolio)

\* the positions handed to _calculate_nav: floats that are whole numbers
FloatShares == {1, Pow2(MantissaBits), Pow2(MantissaBits + 1)}
FloatPositions ==
    UNION {[1..n -> [shares : FloatShares, price : {1}]] : n \in 0..3}

CallCalculateNav ==
    /\ fn_call.fn = "_calculate_nav"
    /\ ~fn_call.returned
    /\ fn_call' = [fn_call EXCEPT !.returned = TRUE,
                                  !.result = FloatCalculateNav(fn_call.portfolio)]
    /\ UNCHANGED <<store_vars, table_vars, build_vars, api_vars>>

InitValuator ==
    /\ \E close \in [Keys -> ValuatorCloseCells] :
        daily_stock_prices = DayRows(MinStart, close, "close")
    /\ daily_market_cap = {}
    /\ IdleBuild
    /\ \/ \E portfolio \in ValuatorPortfolios :
            fn_call = [fn |-> "_update_portfolio_prices", portfolio |-> portfolio,
                       date |-> MinStart, returned |-> FALSE, result |-> <<>>]
       \/ /\ daily_stock_prices = {}
          /\ \E portfolio \in FloatPositions :
                fn_call = [fn |-> "_calculate_nav", portfolio |-> portfolio,
                           returned |-> FALSE, result |-> 0]

NextValuator == CallUpdatePrices \/ CallCalculateNav

SpecValuator == InitValuator /\ [][NextValuator]_vars

----------------------------------------------------------------------------
(* _save_composition statement by statement, and a reader on a connection
   of its own *)

\* the portfolios saved: equal-weight allocations over stocks of one price
TxPortfolios == {CalculateEqualWeights(l, R(12)) : l \in StockLists({1}, {1})}
TxTopN == 1

\* "DELETE FROM index_composition WHERE date = ? AND top_n = ?":
\* SQLiteConnection.execute commits after every statement, and a DuckDB
\* connection is in autocommit mode, so the table without the rows is what
\* every other connection reads from here on
SaveCompositionDelete ==
    /\ fn_call.fn = "_save_composition"
    /\ fn_call.pc = 0
    /\ index_composition' =
          {r \in index_composition : ~(r.date = fn_call.date /\ r.top_n = fn_call.top_n)}
    /\ fn_call' = [fn_call EXCEPT !.pc = 1]
    /\ UNCHANGED <<store_vars, index_performance, composition_changes, build_vars, api_vars>>

\* one pass of "for position in portfolio: INSERT INTO index_composition",
\* committed like the DELETE
SaveCompositionInsert ==
    /\ fn_call.fn = "_save_composition"
    /\ fn_call.pc \in 1..Len(fn_call.portfolio)
    /\ LET position == fn_call.portfolio[fn_call.pc]
       IN index_composition' = index_composition \cup
            {[date |-> fn_call.date, symbol |-> position.symbol,
              exchange |-> position.exchange, market_cap |-> position.market_cap,
              price |-> position.price, shares |-> position.shares,
              weight |-> position.weight, notional_value |-> position.notional_value,
              top_n |-> fn_call.top_n]}
    /\ fn_call' = [fn_call EXCEPT !.pc = fn_call.pc + 1]
    /\ UNCHANGED <<store_vars, index_performance, composition_changes, build_vars, api_vars>>

\* another connection reads the table: export_sqlite_to_csv's
\* "SELECT * FROM index_composition", or any process that opens the database
SelectComposition ==
    /\ fn_call.fn = "_save_composition"
    /\ reply' = [op |-> "select", rows |-> index_composition, during |-> fn_call]
    /\ UNCHANGED <<store_vars, table_vars, build_vars, fn_call, cache, pending>>

\* a call of _save_composition for date MinStart on a table that holds the
\* rows of an earlier save for that date
InitTx ==
    /\ daily_stock_prices = {}
    /\ daily_market_cap = {}
    /\ index_performance = {}
    /\ composition_changes = {}
    /\ phase = "IDLE"
    /\ req = NoReq
    /\ init_date = 0
    /\ current_date = 0
    /\ current_nav = R(0)
    /\ prev_portfolio = <<>>
    /\ days_processed = 0
    /\ response = NoResponse
    /\ probed = {}
    /\ day_log = NoLog
    /\ first_run = NoRun
    /\ cache = NoCache
    /\ reply = NoReply
    /\ pending = 0
    /\ \E earlier, portfolio \in TxPortfolios :
        /\ index_composition = SaveComposition({}, MinStart, earlier, TxTopN)
        /\ fn_call = [fn |-> "_save_composition", date |-> MinStart, portfolio |-> portfolio,
                      top_n |-> TxTopN, before |-> index_composition, pc |-> 0]

NextTx == SaveCompositionDelete \/ SaveCompositionInsert \/ SelectComposition

SpecTx == InitTx /\ [][NextTx]_vars

----------------------------------------------------------------------------
(* The data pipeline: StockDataClient._fetch_with_retry *)

\* the values of max_retries a call is made with (the default is 3)
MaxRetries == 3
\* what one call of fetch_func does: it raises an Exception, or it returns a
\* value, which may be None
FetchOutcomes == {"raises", "data", "None"}

\* variant of OnException: the exception of the last attempt is raised again
OnException_Reraise(call) ==
    IF call.attempt < call.max_retries - 1
    THEN [call EXCEPT !.attempt = call.attempt + 1, !.calls = call.calls + 1,
                      !.slept = call.slept + (call.attempt + 1)]
    ELSE [call EXCEPT !.calls = call.calls + 1, !.status = "raised"]

\* "except Exception": sleep rate_limit_delay * (attempt + 1) and go on with
\* the next attempt, or "return None" after the last one
OnException(call) ==
    IF call.attempt < call.max_retries - 1
    THEN [call EXCEPT !.attempt = call.attempt + 1, !.calls = call.calls + 1,
                      !.slept = call.slept + (call.attempt + 1)]
    ELSE [call EXCEPT !.calls = call.calls + 1, !.status = "returned", !.result = "None"]

\* one pass of "for attempt in range(max_retries)": fetch_func is called and
\* its result returned, or its exception handled
FetchAttempt ==
    /\ fn_call.fn = "_fetch_with_retry"
    /\ fn_call.status = "running"
    /\ fn_call.attempt < fn_call.max_retries
    /\ LET outcome == fn_call.outcomes[fn_call.attempt + 1]
       IN fn_call' = IF outcome = "raises"
                     THEN OnException(fn_call)
                     ELSE [fn_call EXCEPT !.calls = fn_call.calls + 1,
                                          !.status = "returned", !.result = outcome]
    /\ UNCHANGED <<store_vars, table_vars, build_vars, api_vars>>

\* range(max_retries) is empty: the "return None" after the loop
FetchLoopEnd ==
    /\ fn_call.fn = "_fetch_with_retry"
    /\ fn_call.status = "running"
    /\ ~(fn_call.attempt < fn_call.max_retries)
    /\ fn_call' = [fn_call EXCEPT !.status = "returned", !.result = "None"]
    /\ UNCHANGED <<store_vars, table_vars, build_vars, api_vars>>

\* a call of _fetch_with_retry: max_retries and what each call of fetch_func
\* will do
InitRetry ==
    /\ daily_stock_prices = {}
    /\ daily_market_cap = {}
    /\ IdleBuild
    /\ \E max_retries \in 0..MaxRetries, outcomes \in [1..MaxRetries -> FetchOutcomes] :
        fn_call = [fn |-> "_fetch_with_retry", max_retries |-> max_retries,
                   outcomes |-> outcomes, attempt |-> 0, calls |-> 0, slept |-> 0,
                   status |-> "running", result |-> "None"]

NextRetry == FetchAttempt \/ FetchLoopEnd

SpecRetry == InitRetry /\ [][NextRetry]_vars

----------------------------------------------------------------------------
(* The data pipeline: StockDataIngestion._store_price *)

\* the quotes and mics _store_price is called with; quote.get(field) of a
\* field the quote lacks is None, stored as NULL
StoreArgs ==
    {[quote |-> [open |-> <<1>>, high |-> <<2>>, low |-> <<1>>, close |-> <<2>>,
                 volume |-> <<10>>], mic |-> "XNYS"],
     [quote |-> [open |-> <<2>>, high |-> <<2>>, low |-> <<1>>, close |-> <<1>>,
                 volume |-> <<10>>], mic |-> "XNAS"],
     [quote |-> [open |-> <<>>, high |-> <<>>, low |-> <<>>, close |-> <<2>>,
                 volume |-> <<>>], mic |-> "XNYS"]}
StoreDates == {MinStart, MinStart + 1}

\* the row of the VALUES clause
PriceRow(symbol, quote, date, exchange, mic) ==
    [symbol |-> symbol, date |-> date, exchange |-> exchange, open |-> quote.open,
     high |-> quote.high, low |-> quote.low, close |-> quote.close,
     volume |-> quote.volume, mic |-> mic]

\* variant of StorePrice: "ON CONFLICT ... DO NOTHING", the stored row stays
StorePrice_DoNothing(table, symbol, quote, date, exchange, mic) ==
    LET conflicts == {r \in table : r.symbol = symbol /\ r.date = date /\ r.exchange = exchange}
    IN IF conflicts = {}
       THEN table \cup {PriceRow(symbol, quote, date, exchange, mic)}
       ELSE table

\* "INSERT INTO daily_stock_prices ... ON CONFLICT (symbol, date, exchange)
\* DO UPDATE SET open = EXCLUDED.open, ...": the row is inserted, or the
\* listed columns of the row in conflict take the incoming values
StorePrice(table, symbol, quote, date, exchange, mic) ==
    LET conflicts == {r \in table : r.symbol = symbol /\ r.date = date /\ r.exchange = exchange}
    IN IF conflicts = {}
       THEN table \cup {PriceRow(symbol, quote, date, exchange, mic)}
       ELSE (table \ conflicts)
            \cup {[r EXCEPT !.open = quote.open, !.high = quote.high, !.low = quote.low,
                            !.close = quote.close, !.volume = quote.volume, !.mic = mic] :
                     r \in conflicts}

\* a call of _store_price; fn_call keeps the arguments of the latest call
\* for each key
CallStorePrice ==
    /\ fn_call.fn = "_store_price"
    /\ \E k \in Keys, date \in StoreDates, args \in StoreArgs :
        /\ daily_stock_prices' =
              StorePrice(daily_stock_prices, k[1], args.quote, date, k[2], args.mic)
        /\ fn_call' = [fn_call EXCEPT !.latest = [fn_call.latest EXCEPT ![<<k, date>>] = <<args>>]]
    /\ UNCHANGED <<daily_market_cap, table_vars, build_vars, api_vars>>

\* an empty daily_stock_prices before the first call
InitStore ==
    /\ daily_stock_prices = {}
    /\ daily_market_cap = {}
    /\ IdleBuild
    /\ fn_call = [fn |-> "_store_price", latest |-> [x \in Keys \X StoreDates |-> <<>>]]

NextStore == CallStorePrice

SpecStore == InitStore /\ [][NextStore]_vars

----------------------------------------------------------------------------
(* Vocabulary of the properties, read off the tables alone *)

\* keys with a row of the join on a date: a market cap that is not NULL and
\* a close that is not NULL and above zero
EligibleKeys(date) ==
    {k \in Keys : \E m \in daily_market_cap, p \in daily_stock_prices :
        /\ m.date = date /\ <<m.symbol, m.exchange>> = k /\ m.market_cap # <<>>
        /\ p.date = date /\ <<p.symbol, p.exchange>> = k /\ p.close # <<>> /\ p.close[1] > 0}

\* the non-NULL closes stored for a composition row's stock on a date
CloseOn(c, date) ==
    {p.close[1] : p \in {q \in daily_stock_prices :
        q.date = date /\ q.symbol = c.symbol /\ q.exchange = c.exchange /\ q.close # <<>>}}

MaxOf(S) == CHOOSE x \in S : \A y \in S : y <= x
RowKeys(rows) == {<<r.symbol, r.exchange>> : r \in rows}
CompOn(date) == {c \in index_composition : c.date = date}
CompDates == {c.date : c \in index_composition}
ChangesOn(date, change_type) ==
    {c \in composition_changes : c.date = date /\ c.change_type = change_type}
\* the most recently persisted composition before a date
PrevComp(date) ==
    LET before == {d \in CompDates : d < date}
    IN IF before = {} THEN {} ELSE CompOn(MaxOf(before))

\* sum of the last components of a set of tuples <<symbol, exchange, value>>
RECURSIVE SumValues(_)
SumValues(S) ==
    IF S = {} THEN R(0)
    ELSE LET x == CHOOSE y \in S : TRUE IN RAdd(x[3], SumValues(S \ {x}))

InRange(date) == req.start_date <= date /\ date <= EndDt(req)

----------------------------------------------------------------------------
(* Properties *)

\* C1: a build that returns after a build with the same arguments over the same
\* market data leaves the same index_performance and index_composition rows
\* as that build left.
C1_Idempotent ==
    (phase = "DONE" /\ first_run.kind = "same") =>
        /\ index_performance = first_run.performance
        /\ index_composition = first_run.composition

\* C2: when a build has returned, every row of the three tables carries its
\* top_n, performance and change dates lie in [start_date, end_date] and
\* composition dates in {init_date} \cup [start_date, end_date]: no row of an
\* earlier build survives.
C2_FullRebuild ==
    phase = "DONE" =>
        /\ \A r \in index_performance : r.top_n = req.top_n /\ InRange(r.date)
        /\ \A r \in composition_changes : r.top_n = req.top_n /\ InRange(r.date)
        /\ \A r \in index_composition :
              r.top_n = req.top_n /\ (r.date = init_date \/ InRange(r.date))

\* a build has returned that began over the rows of a build with other arguments
C2_Witness ==
    /\ phase = "DONE"
    /\ first_run.kind = "other"
    /\ index_performance # {}
    /\ composition_changes # {}

\* C3: the build fails in INIT exactly when none of the 10 dates start_date-1 ..
\* start_date-10 has an eligible row; otherwise init_date is the latest date of
\* that window with eligible rows; no date outside the window is probed.
C3_InitLookback ==
    phase # "IDLE" =>
        LET window == {req.start_date - a : a \in 1..10}
            hits == {d \in window : EligibleKeys(d) # {}}
        IN /\ phase = "FAILED" <=> hits = {}
           /\ hits # {} => init_date = MaxOf(hits)
           /\ probed \subseteq window

\* the build failed although the 11th day back, and the start date itself, hold eligible rows
C3_Witness ==
    /\ phase = "FAILED"
    /\ EligibleKeys(req.start_date - 11) # {}
    /\ EligibleKeys(req.start_date) # {}

\* C4: a calendar day of the range whose join has no row is skipped: it gets no
\* index_performance row, and days_processed counts no such day.
C4_EmptyJoinDaySkipped ==
    phase \in {"ITERATING", "DONE"} =>
        /\ \A r \in index_performance : EligibleKeys(r.date) # {}
        /\ days_processed <=
              Cardinality({d \in req.start_date..(current_date - 1) : EligibleKeys(d) # {}})

\* C5: the nav of every persisted performance row is the sum of shares * close
\* over the rows of the most recently persisted earlier composition whose
\* stock has a non-NULL close on that date.
C5_NavRollForward ==
    \A r \in index_performance :
        r.nav = SumValues(UNION {{<<c.symbol, c.exchange, RMul(c.shares, R(v))>> :
                                    v \in CloseOn(c, r.date)} : c \in PrevComp(r.date)})

\* a performance row of a date on which one held stock has no close, another a
\* changed close, and whose new Top-N shares no stock with the holdings
C5_Witness ==
    \E r \in index_performance :
        /\ \E c \in PrevComp(r.date) : CloseOn(c, r.date) = {}
        /\ \E c \in PrevComp(r.date) :
              CloseOn(c, r.date) # {} /\ R(MaxOf(CloseOn(c, r.date))) # c.price
        /\ RowKeys(CompOn(r.date)) # {}
        /\ RowKeys(CompOn(r.date)) \cap RowKeys(PrevComp(r.date)) = {}

\* C6: on every date with composition rows, with k the number of rows, 1 <= k <=
\* top_n and every row has weight 1/k, notional_value NAV/k, a price above zero
\* and shares notional_value/price, NAV being the persisted nav of the date
\* (initial_nav on the init date); the notional values of the date sum to NAV.
C6_EqualWeightRebalance ==
    phase \in {"ITERATING", "DONE"} =>
        \A d \in CompDates :
            LET rows == CompOn(d)
                k == Cardinality(rows)
                navs == IF d = init_date THEN {req.initial_nav}
                        ELSE {r.nav : r \in {x \in index_performance : x.date = d}}
            IN /\ 1 <= k /\ k <= req.top_n
               /\ Cardinality(navs) = 1
               /\ \A nav \in navs :
                    /\ \A c \in rows :
                          /\ c.weight = Rat(1, k)
                          /\ c.notional_value = RDiv(nav, R(k))
                          /\ RGt(c.price, R(0))
                          /\ c.shares = RDiv(c.notional_value, c.price)
                    /\ SumValues({<<c.symbol, c.exchange, c.notional_value>> : c \in rows}) = nav

\* a processed date with fewer composition rows than top_n, after a date with top_n rows
C6_Witness ==
    /\ phase \in {"ITERATING", "DONE"}
    /\ \E d \in CompDates :
        /\ d >= req.start_date
        /\ Cardinality(CompOn(d)) < req.top_n
        /\ Cardinality(PrevComp(d)) = req.top_n
        /\ \E r \in index_performance : r.date = d /\ r.nav # req.initial_nav

\* C7: for a non-empty stock list of length N with positive prices and any
\* nav, _calculate_equal_weights returns the N stocks each with weight 1/N;
\* the weights sum to 1, the notional values sum to nav and the sum of
\* shares * price is nav.
C7_EqualWeightAllocator ==
    (fn_call.fn = "_calculate_equal_weights" /\ fn_call.returned /\ fn_call.stocks # <<>>) =>
        LET N == Len(fn_call.stocks)
            out == fn_call.result
        IN /\ Len(out) = N
           /\ \A i \in 1..N :
                /\ out[i].symbol = fn_call.stocks[i].symbol
                /\ out[i].exchange = fn_call.stocks[i].exchange
                /\ out[i].price = fn_call.stocks[i].price
                /\ out[i].weight = Rat(1, N)
           /\ RSumSeq([i \in 1..N |-> out[i].weight]) = R(1)
           /\ RSumSeq([i \in 1..N |-> out[i].notional_value]) = fn_call.nav
           /\ RSumSeq([i \in 1..N |-> RMul(out[i].shares, out[i].price)]) = fn_call.nav

\* three stocks of unequal price and market cap were allocated a fractional nav
C7_Witness ==
    /\ fn_call.fn = "_calculate_equal_weights"
    /\ fn_call.returned
    /\ Len(fn_call.result) = 3
    /\ fn_call.nav = Rat(5, 2)
    /\ fn_call.result[1].price # fn_call.result[2].price
    /\ fn_call.result[1].market_cap # fn_call.result[2].market_cap

\* the non-NULL market caps stored for a key on a date
CapsOf(k, date) ==
    {m.market_cap[1] : m \in {x \in daily_market_cap :
        x.date = date /\ <<x.symbol, x.exchange>> = k /\ x.market_cap # <<>>}}
\* the closes above zero stored for a key on a date
PositiveClosesOf(k, date) ==
    {p.close[1] : p \in {x \in daily_stock_prices :
        x.date = date /\ <<x.symbol, x.exchange>> = k /\ x.close # <<>> /\ x.close[1] > 0}}

\* C8: _get_top_n_stocks raises exactly when the date has no eligible row;
\* otherwise it returns between 1 and top_n entries, each an eligible row of
\* the date (market cap not NULL, close not NULL and above zero), in
\* non-increasing market_cap order, and no eligible row left out has a
\* market_cap above that of a returned one.
C8_TopNSelector ==
    fn_call.fn = "_get_top_n_stocks" =>
        LET d == fn_call.date
            out == fn_call.result
            returned == {<<out[i].symbol, out[i].exchange>> : i \in 1..Len(out)}
        IN /\ fn_call.raised <=> EligibleKeys(d) = {}
           /\ ~fn_call.raised =>
                /\ 1 <= Len(out) /\ Len(out) <= fn_call.top_n
                /\ \A i \in 1..Len(out) :
                      /\ out[i].market_cap \in {R(c) : c \in CapsOf(<<out[i].symbol, out[i].exchange>>, d)}
                      /\ out[i].price \in {R(c) : c \in PositiveClosesOf(<<out[i].symbol, out[i].exchange>>, d)}
                      /\ RGt(out[i].price, R(0))
                /\ \A i, j \in 1..Len(out) : i < j => RLe(out[j].market_cap, out[i].market_cap)
                /\ \A k \in EligibleKeys(d) \ returned : \A i \in 1..Len(out), c \in CapsOf(k, d) :
                      RLe(R(c), out[i].market_cap)

\* a call cut the eligible rows at top_n while the date also holds a row with a
\* market cap whose close is zero or negative
C8_Witness ==
    /\ fn_call.fn = "_get_top_n_stocks"
    /\ ~fn_call.raised
    /\ Len(fn_call.result) = fn_call.top_n
    /\ Cardinality(EligibleKeys(fn_call.date)) > fn_call.top_n
    /\ fn_call.date = MinStart + 1 \/
         \E p \in daily_stock_prices : p.date = fn_call.date /\ p.close # <<>> /\ p.close[1] <= 0

\* C9: keyed by (symbol, exchange), added is exactly the new Top-N keys not in
\* the old portfolio and removed exactly the old portfolio keys not in the new
\* Top-N: the two are disjoint, both empty when the key sets are equal, and a
\* key of both sets is in neither.
C9_ReconstitutionDetector ==
    (fn_call.fn = "_detect_composition_changes" /\ fn_call.returned) =>
        LET old == {<<fn_call.portfolio[i].symbol, fn_call.portfolio[i].exchange>> :
                        i \in 1..Len(fn_call.portfolio)}
            new == {<<fn_call.new_top_stocks[i].symbol, fn_call.new_top_stocks[i].exchange>> :
                        i \in 1..Len(fn_call.new_top_stocks)}
            added == {<<s.symbol, s.exchange>> : s \in Range(fn_call.result.added_stocks)}
            removed == {<<s.symbol, s.exchange>> : s \in Range(fn_call.result.removed_stocks)}
        IN /\ added = new \ old
           /\ removed = old \ new
           /\ Range(fn_call.result.added_stocks) \subseteq Range(fn_call.new_top_stocks)
           /\ Range(fn_call.result.removed_stocks) \subseteq Range(fn_call.portfolio)
           /\ added \cap removed = {}
           /\ old = new => fn_call.result.added_stocks = <<>> /\ fn_call.result.removed_stocks = <<>>
           /\ \A k \in old \cap new : k \notin added \cup removed

\* a call reported an added and a removed stock that share a symbol, beside a kept one
C9_Witness ==
    /\ fn_call.fn = "_detect_composition_changes"
    /\ fn_call.returned
    /\ \E a \in Range(fn_call.result.added_stocks), r \in Range(fn_call.result.removed_stocks) :
          a.symbol = r.symbol
    /\ KeySet(fn_call.portfolio) \cap KeySet(fn_call.new_top_stocks) # {}

\* C10 as claimed: on every processed date the ADDED rows are the composition
\* minus the previous persisted composition and the REMOVED rows are the
\* previous persisted composition minus the composition.
C10_EveryMembershipChangeRecorded ==
    phase \in {"ITERATING", "DONE"} =>
        \A d \in CompDates \ {init_date} :
            /\ RowKeys(ChangesOn(d, "ADDED")) = RowKeys(CompOn(d)) \ RowKeys(PrevComp(d))
            /\ RowKeys(ChangesOn(d, "REMOVED")) = RowKeys(PrevComp(d)) \ RowKeys(CompOn(d))

\* the stocks of the previous persisted composition that the revaluation of a
\* date keeps: those with a close on the date that is neither NULL nor zero
PricedKeys(date) == RowKeys({c \in PrevComp(date) : CloseOn(c, date) \ {0} # {}})

\* C10 as amended: on every processed date the ADDED rows are the composition
\* minus the previous persisted composition, and the REMOVED rows are the
\* stocks of the previous persisted composition, not in the composition,
\* that have a close on the date that is neither NULL nor zero.
C10_RecordedChanges ==
    phase \in {"ITERATING", "DONE"} =>
        \A d \in CompDates \ {init_date} :
            /\ RowKeys(ChangesOn(d, "ADDED")) = RowKeys(CompOn(d)) \ RowKeys(PrevComp(d))
            /\ RowKeys(ChangesOn(d, "REMOVED")) =
                  (RowKeys(PrevComp(d)) \ RowKeys(CompOn(d))) \cap PricedKeys(d)

\* a processed date on which one stock left with a REMOVED row, one left
\* without a close and without a row, and one entered
C10_Witness ==
    /\ phase \in {"ITERATING", "DONE"}
    /\ \E d \in CompDates \ {init_date} :
        /\ ChangesOn(d, "REMOVED") # {}
        /\ ChangesOn(d, "ADDED") # {}
        /\ (RowKeys(PrevComp(d)) \ RowKeys(CompOn(d))) \ PricedKeys(d) # {}

\* the index_performance rows of the dates of the build's range
PerfInRange == {r \in index_performance : InRange(r.date)}
\* the latest-dated index_performance row
LatestPerf == CHOOSE r \in index_performance : \A q \in index_performance : q.date <= r.date

\* C11: when a build has returned, days_processed is the number of dates of
\* the range with an index_performance row, and a date of the range has an
\* index_performance row exactly when it has index_composition rows.
C11_DaysProcessedConsistent ==
    phase = "DONE" =>
        /\ response.days_processed = Cardinality({r.date : r \in PerfInRange})
        /\ \A d \in req.start_date..EndDt(req) :
              (\E r \in index_performance : r.date = d) <=> CompOn(d) # {}

\* C12: when a build has returned, final_nav and total_return are the nav and
\* cumulative_return of the latest-dated index_performance row; when no day
\* was processed, final_nav is initial_nav, total_return is 0 and
\* days_processed is 0.
C12_SummaryAgreesWithHistory ==
    phase = "DONE" =>
        /\ index_performance # {} =>
              /\ response.final_nav = LatestPerf.nav
              /\ response.total_return = LatestPerf.cumulative_return
        /\ response.days_processed = 0 =>
              /\ response.final_nav = req.initial_nav
              /\ response.total_return = R(0)

\* the nav before a performance row: that of the previous persisted row, or
\* initial_nav for the first row
PrevNav(r) ==
    LET before == {q \in index_performance : q.date < r.date}
    IN IF before = {} THEN req.initial_nav
       ELSE (CHOOSE q \in before : \A x \in before : x.date <= q.date).nav

\* the daily returns compounded from the first row up to a row, as a growth factor
RECURSIVE Compounded(_)
Compounded(r) ==
    LET before == {q \in index_performance : q.date < r.date}
        growth == RAdd(R(1), RDiv(r.daily_return, R(100)))
    IN IF before = {} THEN growth
       ELSE RMul(Compounded(CHOOSE q \in before : \A x \in before : x.date <= q.date), growth)

\* the return formulas of a performance row
ReturnFormulas(r) ==
    /\ r.daily_return = IF RGt(PrevNav(r), R(0))
                        THEN RMul(RSub(RDiv(r.nav, PrevNav(r)), R(1)), R(100))
                        ELSE R(0)
    /\ r.cumulative_return = RMul(RSub(RDiv(r.nav, req.initial_nav), R(1)), R(100))

\* C13 as claimed: every performance row has daily_return (nav / prev_nav - 1) * 100,
\* or 0 when prev_nav <= 0, and cumulative_return (nav / initial_nav - 1) * 100,
\* and the daily returns compounded from the first row give the cumulative return.
C13_ReturnSeriesCompounds ==
    \A r \in index_performance :
        /\ ReturnFormulas(r)
        /\ Compounded(r) = RAdd(R(1), RDiv(r.cumulative_return, R(100)))

\* C13 as amended: the two formulas hold for every row, and the daily returns
\* compounded from the first row give the cumulative return of a row when
\* the nav before that row and before every earlier row is above zero.
C13_ReturnSeries ==
    \A r \in index_performance :
        /\ ReturnFormulas(r)
        /\ (\A q \in index_performance : q.date <= r.date => RGt(PrevNav(q), R(0))) =>
              Compounded(r) = RAdd(R(1), RDiv(r.cumulative_return, R(100)))

\* a row follows a row whose nav is not above zero: its daily_return is 0
\* although its nav differs
C13_Witness ==
    \E r \in index_performance :
        /\ ~RGt(PrevNav(r), R(0))
        /\ r.nav # PrevNav(r)
        /\ r.daily_return = R(0)

\* C17: a build that reached ITERATING ends in DONE; its loop starts at
\* start_date, advances one date per pass and returns after end_date; it never
\* ends in an exception, and no row is persisted for a date outside
\* {init_date} \cup [start_date, end_date].
C17_IterationTerminates ==
    /\ (phase = "ITERATING") ~> (phase = "DONE")
    /\ [][/\ (phase # "ITERATING" /\ phase' = "ITERATING") => current_date' = req'.start_date
          /\ phase = "ITERATING" =>
                /\ phase' \in {"ITERATING", "DONE"}
                /\ req' = req
                /\ phase' = "ITERATING" =>
                      /\ current_date <= EndDt(req)
                      /\ current_date' = current_date + 1
                /\ phase' = "DONE" => current_date = EndDt(req) + 1]_vars
    /\ [](phase # "ABORTED")
    /\ [](phase \in {"ITERATING", "DONE"} =>
            /\ \A r \in index_performance \cup composition_changes : InRange(r.date)
            /\ \A r \in index_composition : r.date = init_date \/ InRange(r.date))

\* a build returned over a range holding a date that left no performance
\* row (missing data) and a date whose composition was persisted
C17_Witness ==
    /\ phase = "DONE"
    /\ \E d1, d2 \in req.start_date..EndDt(req) :
          /\ \A r \in index_performance : r.date # d1
          /\ CompOn(d2) # {}

\* C18: for a fixed store, date and top_n, the list _get_top_n_stocks returns
\* is the only list the query can return for these arguments: every call
\* returns the same stocks in the same order, also when eligible stocks have
\* equal market_cap at the cut-off rank.
C18_DeterministicTieBreak ==
    fn_call.fn = "_get_top_n_stocks" =>
        QueryTopN(fn_call.date, fn_call.top_n) = {fn_call.result}

\* the non-NULL market caps stored for a key on a date
CapOn(k, date) ==
    {m.market_cap[1] : m \in {q \in daily_market_cap :
        q.date = date /\ <<q.symbol, q.exchange>> = k /\ q.market_cap # <<>>}}

\* C19: from the end of INIT to the return of a successful build,
\* index_composition holds for init_date a Top-N of init_date (k = min(top_n,
\* number of eligible stocks) eligible stocks, none of the others with a
\* larger market_cap), each at its close of init_date with notional_value
\* initial_nav/k and shares initial_nav/(k*price); init_date is before
\* start_date and has no index_performance or composition_changes row; no
\* step of the ITERATING phase changes the rows of init_date.
C19_InitialPortfolioPersisted ==
    /\ [](phase \in {"ITERATING", "DONE"} =>
            LET rows == CompOn(init_date)
                elig == EligibleKeys(init_date)
                k == Cardinality(rows)
            IN /\ init_date < req.start_date
               /\ k = Min2(req.top_n, Cardinality(elig))
               /\ k >= 1
               /\ Cardinality(RowKeys(rows)) = k
               /\ RowKeys(rows) \subseteq elig
               /\ \A c \in rows :
                     /\ c.top_n = req.top_n
                     /\ CloseOn(c, init_date) = {c.price.n}
                     /\ c.price.d = 1
                     /\ CapOn(<<c.symbol, c.exchange>>, init_date) = {c.market_cap.n}
                     /\ c.notional_value = RDiv(req.initial_nav, R(k))
                     /\ c.shares = RDiv(req.initial_nav, RMul(R(k), c.price))
                     /\ \A other \in elig \ RowKeys(rows) :
                           \A cap \in CapOn(other, init_date) : RLe(R(cap), c.market_cap)
               /\ \A r \in index_performance \cup composition_changes : r.date # init_date)
    /\ [][phase = "ITERATING" =>
            /\ init_date' = init_date
            /\ {c \in index_composition' : c.date = init_date}
                  = {c \in index_composition : c.date = init_date}]_vars

\* a returned build whose initial portfolio has fewer stocks than top_n and
\* was followed by a rebalance into other stocks
C19_Witness ==
    /\ phase = "DONE"
    /\ Cardinality(CompOn(init_date)) = 1
    /\ req.top_n = 2
    /\ \E d \in CompDates :
          d >= req.start_date /\ RowKeys(CompOn(d)) # RowKeys(CompOn(init_date))

\* C14: a get_performance or get_composition call that finds nothing cached
\* under its key and no row matching its arguments answers not-found; no
\* successful answer of either query carries an empty list.
C14_EmptyReadsNotFound ==
    /\ [](reply.op \in {"get_performance", "get_composition"} /\ reply.status = "ok"
            => reply.body # {})
    /\ [][(/\ reply' # reply
           /\ reply'.op = "get_performance"
           /\ CacheGet(reply'.key) = {}
           /\ PerformanceRows(reply'.key[2], reply'.key[3]) = {})
          => reply'.status = "not_found"]_vars
    /\ [][(/\ reply' # reply
           /\ reply'.op = "get_composition"
           /\ CacheGet(reply'.key) = {}
           /\ CompositionRows(reply'.key[2]) = {})
          => reply'.status = "not_found"]_vars

\* get_performance answered not-found after a build that returned and left
\* composition rows but no performance row in the asked range
C14_Witness ==
    /\ reply.op = "get_performance"
    /\ reply.status = "not_found"
    /\ phase = "DONE"
    /\ index_composition # {}
    /\ cache = {}

\* C15: get_composition_changes never answers with a successful response
\* whose changes list is empty: when no composition_changes row matches the
\* asked range it answers not-found.
C15_EmptyChangesNotFound ==
    reply.op = "get_composition_changes" => ~(reply.status = "ok" /\ reply.body = {})

\* a date string spelled YYYY-MM-DD
InIsoFormat(v) == v.form = "padded"

\* the bodies the validation is required to reject
MustReject(raw) ==
    \/ ~InIsoFormat(raw.start_date)
    \/ raw.end_date # <<>> /\ ~InIsoFormat(raw.end_date[1])
    \/ raw.end_date # <<>> /\ raw.end_date[1].day < raw.start_date.day
    \/ raw.top_n < 1
    \/ raw.top_n > 500
    \/ raw.initial_nav <= 0

\* C16: a build request whose start_date or end_date is not spelled
\* YYYY-MM-DD, whose end_date is before its start_date, whose top_n is outside
\* [1, 500] or whose initial_nav is <= 0 is rejected, and the step that
\* rejects a request leaves the three persisted tables as they were.
C16_ValidationPrecedesComputation ==
    /\ [](reply.op = "build_index" /\ MustReject(reply.raw) => reply.status = "rejected")
    /\ [][reply'.op = "build_index" /\ reply'.status = "rejected"
            => UNCHANGED table_vars]_vars

\* C20: from the first to the last step of a build no other build acts: while
\* a build iterates, its arguments and init_date stay, each step either
\* leaves the build where it is (a request arriving, a cache entry expiring),
\* moves it to the next date or returns it, and the tables change only with a
\* move to the next date; a build starts from emptied tables; when it has
\* returned, every row carries its top_n and a date of its own range.
C20_BuildsNeverInterleave ==
    /\ [][phase = "ITERATING" =>
            /\ req' = req
            /\ init_date' = init_date
            /\ \/ phase' = "ITERATING" /\ current_date' = current_date
                    /\ UNCHANGED <<table_vars, current_nav, prev_portfolio, days_processed>>
               \/ phase' = "ITERATING" /\ current_date' = current_date + 1
                    /\ \A r \in (index_performance' \ index_performance)
                                  \cup (index_composition' \ index_composition)
                                  \cup (composition_changes' \ composition_changes) :
                          r.date = current_date /\ r.top_n = req.top_n
               \/ phase' = "DONE" /\ current_date > EndDt(req) /\ UNCHANGED table_vars]_vars
    /\ [][phase # "ITERATING" /\ phase' = "ITERATING" =>
            /\ index_performance' = {}
            /\ composition_changes' = {}
            /\ \A r \in index_composition' : r.date = init_date' /\ r.top_n = req'.top_n]_vars
    /\ [](phase = "DONE" =>
            /\ \A r \in index_performance \cup composition_changes :
                  r.top_n = req.top_n /\ InRange(r.date)
            /\ \A r \in index_composition :
                  r.top_n = req.top_n /\ (r.date = init_date \/ InRange(r.date)))

\* a build request is waiting while another build is past its first date
C20_Witness ==
    /\ phase = "ITERATING"
    /\ pending > 0
    /\ current_date > req.start_date
    /\ index_performance # {}

\* the orders in which a list can hold its elements
Reorderings(l) ==
    {[i \in 1..Len(l) |-> l[f[i]]] :
        f \in {g \in [1..Len(l) -> 1..Len(l)] : \A i, j \in 1..Len(l) : g[i] = g[j] => i = j}}

\* C23: _calculate_nav returns the same value for every order of the
\* positions of its portfolio.
C23_NavOrderIndependent ==
    (fn_call.fn = "_calculate_nav" /\ fn_call.returned) =>
        \A l \in Reorderings(fn_call.portfolio) : FloatCalculateNav(l) = fn_call.result

\* C24: _update_portfolio_prices returns, in their original order, exactly
\* the input positions with a non-NULL close on the target date, each with
\* shares and weight unchanged, price the new close and notional_value =
\* shares * new close; nothing else is returned.
C24_RevaluationFrame ==
    (fn_call.fn = "_update_portfolio_prices" /\ fn_call.returned) =>
        LET Priced(position) == CloseOn(position, fn_call.date) # {}
            kept == SelectSeq(fn_call.portfolio, Priced)
            out == fn_call.result
        IN /\ Len(out) = Len(kept)
           /\ \A i \in 1..Len(kept) :
                 /\ KeyOf(out[i]) = KeyOf(kept[i])
                 /\ out[i].shares = kept[i].shares
                 /\ out[i].weight = kept[i].weight
                 /\ CloseOn(kept[i], fn_call.date) = {out[i].price.n}
                 /\ out[i].price.d = 1
                 /\ out[i].notional_value = RMul(out[i].shares, out[i].price)

\* C27: every position _update_portfolio_prices returns has market_cap =
\* (prior market_cap / prior price) * new price.
C27_MarketCapRederived ==
    (fn_call.fn = "_update_portfolio_prices" /\ fn_call.returned) =>
        \A i \in 1..Len(fn_call.result) : \A j \in 1..Len(fn_call.portfolio) :
            KeyOf(fn_call.result[i]) = KeyOf(fn_call.portfolio[j]) =>
                fn_call.result[i].market_cap =
                    RMul(RDiv(fn_call.portfolio[j].market_cap, fn_call.portfolio[j].price),
                         fn_call.result[i].price)

\* C25: a loop pass over a date on which no position of the carried portfolio
\* has a non-NULL close leaves the carried portfolio, the current NAV,
\* days_processed and the three persisted tables as they were.
C25_EmptyRevaluationSkip ==
    [][(/\ phase = "ITERATING"
        /\ current_date' = current_date + 1
        /\ \A i \in 1..Len(prev_portfolio) : CloseOn(prev_portfolio[i], current_date) = {})
       => UNCHANGED <<prev_portfolio, current_nav, days_processed, table_vars>>]_vars

\* a date was skipped after a date was processed
C25_Witness ==
    /\ day_log.kind = "skipped"
    /\ days_processed > 0
    /\ index_performance # {}
    /\ prev_portfolio # <<>>
    /\ \A i \in 1..Len(prev_portfolio) : CloseOn(prev_portfolio[i], day_log.date) = {}

\* C26: after a processed date d, with old the keys of the revalued portfolio
\* (the previous composition's stocks priced on d) and new the keys of the
\* Top-N of d, composition_changes has rows for d exactly when old # new: the
\* ADDED rows are new \ old, the REMOVED rows old \ new, no key is in both and
\* no key of old \cap new has a row.
C26_ChangesOnReconstitutionDays ==
    day_log.kind = "processed" =>
        LET d == day_log.date
            old == KeySet(day_log.revalued)
            new == KeySet(day_log.top)
            added == RowKeys(ChangesOn(d, "ADDED"))
            removed == RowKeys(ChangesOn(d, "REMOVED"))
        IN /\ old = PricedKeys(d)
           /\ new = RowKeys(CompOn(d))
           /\ ({c \in composition_changes : c.date = d} # {}) <=> (old # new)
           /\ added = new \ old
           /\ removed = old \ new
           /\ added \cap removed = {}
           /\ (added \cup removed) \cap (old \cap new) = {}
           /\ \A c \in composition_changes : c.change_type \in {"ADDED", "REMOVED"}

\* a processed date on which one stock stayed, one left and one entered
C26_Witness ==
    /\ day_log.kind = "processed"
    /\ KeySet(day_log.revalued) \cap KeySet(day_log.top) # {}
    /\ KeySet(day_log.revalued) \ KeySet(day_log.top) # {}
    /\ KeySet(day_log.top) \ KeySet(day_log.revalued) # {}
    /\ ChangesOn(day_log.date, "REMOVED") # {}

\* C28: index_performance never holds two rows with the same (date, top_n),
\* index_composition two with the same (date, symbol, exchange, top_n), nor
\* composition_changes two with the same (date, symbol, exchange,
\* change_type, top_n); a build writes the performance row of a date once:
\* each write adds one row, of the current date, later than every row held.
C28_KeyUniqueness ==
    /\ [](/\ \A r, q \in index_performance :
                (r.date = q.date /\ r.top_n = q.top_n) => r = q
          /\ \A r, q \in index_composition :
                (/\ r.date = q.date /\ r.symbol = q.symbol
                 /\ r.exchange = q.exchange /\ r.top_n = q.top_n) => r = q
          /\ \A r, q \in composition_changes :
                (/\ r.date = q.date /\ r.symbol = q.symbol /\ r.exchange = q.exchange
                 /\ r.change_type = q.change_type /\ r.top_n = q.top_n) => r = q)
    /\ [][(phase = "ITERATING" /\ index_performance' # index_performance) =>
            /\ \A r \in index_performance : r.date < current_date
            /\ \E row \in index_performance' :
                  /\ row.date = current_date
                  /\ index_performance' = index_performance \cup {row}]_vars

\* a build returned with two performance rows after an earlier build with
\* other arguments had left rows
C28_Witness ==
    /\ phase = "DONE"
    /\ first_run.kind = "other"
    /\ Cardinality(index_performance) >= 2
    /\ composition_changes # {}

\* C29: after a build failed in INIT the three persisted tables are empty.
C29_FailedBuildPersistsNothing ==
    phase = "FAILED" =>
        /\ index_performance = {}
        /\ index_composition = {}
        /\ composition_changes = {}

\* a build failed in INIT after an earlier build had left rows
C29_Witness ==
    /\ phase = "FAILED"
    /\ first_run.kind = "other"

ReadQueries == {"get_performance", "get_composition", "get_composition_changes"}

\* C22: a step that answers get_performance, get_composition or
\* get_composition_changes, from the cache, from the tables or with
\* not-found, leaves the three persisted tables (and the market data and the
\* build) unchanged; the tables change only in a step of a build or of
\* reset_database.
C22_QueriesReadOnly ==
    /\ [][(reply' # reply /\ reply'.op \in ReadQueries)
            => UNCHANGED <<table_vars, store_vars, build_vars, pending>>]_vars
    /\ [][table_vars' # table_vars =>
            \/ phase = "ITERATING"
            \/ phase' # phase
            \/ reply'.op = "reset_database"]_vars

\* get_composition answered from the tables of a returned build and wrote
\* its answer to the cache
C22_Witness ==
    /\ reply.op = "get_composition"
    /\ reply.status = "ok"
    /\ ~reply.hit
    /\ \E e \in cache : e.key = reply.key
    /\ CompositionRows(reply.key[2]) # {}
    /\ phase = "DONE"

\* what a query returns when it reads the tables
DirectRead(op, key) ==
    LET rows == IF op = "get_performance" THEN PerformanceRows(key[2], key[3])
                ELSE IF op = "get_composition" THEN CompositionRows(key[2])
                ELSE ChangeRowsIn(key[2], key[3])
        body == IF op = "get_performance" THEN PerformanceBody(rows)
                ELSE IF op = "get_composition" THEN CompositionBody(rows)
                ELSE ChangesBody(rows)
    IN IF rows = {} /\ op # "get_composition_changes"
       THEN [status |-> "not_found", body |-> {}]
       ELSE [status |-> "ok", body |-> body]

\* C30: every answer of get_performance, get_composition and
\* get_composition_changes is the outcome a read of the tables as they are
\* at the time of the call gives, whatever build_index or reset_database did
\* since an answer was cached.
C30_CacheCoherent ==
    [][(reply' # reply /\ reply'.op \in ReadQueries)
        => [status |-> reply'.status, body |-> reply'.body]
              = DirectRead(reply'.op, reply'.key)]_vars

\* the rows of a date in a copy of index_composition
RowsOn(rows, date) == {r \in rows : r.date = date}

C31_NotFoundNeverCached ==
    /\ [][(reply' # reply /\ reply'.op \in {"get_performance", "get_composition"})
            => /\ reply'.status = "not_found" => cache' = cache
               /\ (CacheGet(reply'.key) = {}
                     /\ DirectRead(reply'.op, reply'.key).status = "ok")
                    => (reply'.status = "ok" /\ ~reply'.hit)]_vars
    /\ [](\A e \in cache : e.key[1] \in {"perf", "comp"} => e.value # {})

\* get_performance found no row, raised, and its key has no cache entry
C31_Witness ==
    /\ reply.op = "get_performance"
    /\ reply.status = "not_found"
    /\ CacheGet(reply.key) = {}
    /\ index_performance = {}

\* C32: a query that got nothing from the cache, because the key is absent
\* or because the read raised, returns the outcome of reading the tables,
\* never an error; and the cache afterwards is the cache as it was or the
\* cache with that response under the key (the write raised, or it did not).
C32_CacheFailuresTolerated ==
    [][(reply' # reply /\ reply'.op \in ReadQueries)
        => /\ reply'.status \in {"ok", "not_found"}
           /\ ~reply'.hit =>
                /\ [status |-> reply'.status, body |-> reply'.body]
                      = DirectRead(reply'.op, reply'.key)
                /\ cache' \in {cache, CacheSet(reply'.key, reply'.body)}]_vars

\* the cache holds an entry under the key of a get_composition call that
\* answered not-found: the read of that entry raised, the tables were read
C32_Witness ==
    /\ reply.op = "get_composition"
    /\ ~reply.hit
    /\ reply.status = "not_found"
    /\ CacheGet(reply.key) # {}

\* every number of a position dict is the result of defined divisions
PositionIsNum(position) ==
    /\ IsNum(position.price)
    /\ IsNum(position.market_cap)
    /\ IsNum(position.shares)
    /\ IsNum(position.weight)
    /\ IsNum(position.notional_value)

\* C33: in a build of a validated request no division has a zero divisor:
\* build_index never ends in ZeroDivisionError; a carried position's price,
\* the divisor of the implied-shares computation, is never 0; the lists given
\* to _calculate_equal_weights are non-empty and hold positive prices only;
\* and every nav, return, share count and weight computed or persisted is
\* the result of defined divisions.
C33_NoDivisionByZero ==
    /\ phase # "ABORTED"
    /\ IsNum(current_nav)
    /\ \A i \in 1..Len(prev_portfolio) :
          /\ prev_portfolio[i].price # R(0)
          /\ PositionIsNum(prev_portfolio[i])
    /\ day_log.kind = "processed" =>
          /\ day_log.top # <<>>
          /\ \A i \in 1..Len(day_log.top) : RGt(day_log.top[i].price, R(0))
    /\ \A r \in index_performance :
          IsNum(r.nav) /\ IsNum(r.daily_return) /\ IsNum(r.cumulative_return)
    /\ \A r \in index_composition : PositionIsNum(r)
    /\ \A r \in composition_changes : IsNum(r.market_cap)
    /\ IsNum(response.final_nav) /\ IsNum(response.total_return)

\* a pass met a carried position whose close is 0 and left it out of the
\* revalued portfolio, and the NAV of the remaining positions is not positive
C33_Witness ==
    /\ day_log.kind = "no_top_n"
    /\ Len(day_log.revalued) < Len(prev_portfolio)
    /\ \E i \in 1..Len(prev_portfolio) :
          \E p \in PriceRows(prev_portfolio[i], day_log.date) : p.close = <<0>>
    /\ ~RGt(current_nav, R(0))

\* the calls of fetch_func that do not raise, among the first max_retries
Successes(call) == {i \in 1..call.max_retries : call.outcomes[i] # "raises"}

\* C34: _fetch_with_retry never calls fetch_func more than max_retries times
\* and never ends in an exception of fetch_func; when it has returned, it
\* made exactly the calls up to the first one that did not raise and
\* returned that call's result, or it made max_retries calls that all raised
\* and returned None.
C34_BoundedRetry ==
    fn_call.fn = "_fetch_with_retry" =>
        /\ fn_call.calls <= fn_call.max_retries
        /\ fn_call.status # "raised"
        /\ fn_call.status = "returned" =>
              IF Successes(fn_call) # {}
              THEN \E first \in Successes(fn_call) :
                      /\ \A i \in Successes(fn_call) : first <= i
                      /\ fn_call.calls = first
                      /\ fn_call.result = fn_call.outcomes[first]
              ELSE /\ fn_call.calls = fn_call.max_retries
                   /\ fn_call.result = "None"

\* a call with the default max_retries returned the data of its third
\* attempt after two attempts that raised and two sleeps
C34_Witness ==
    /\ fn_call.fn = "_fetch_with_retry"
    /\ fn_call.status = "returned"
    /\ fn_call.max_retries = 3
    /\ fn_call.calls = 3
    /\ fn_call.result = "data"
    /\ fn_call.slept = 3

\* C35: after any sequence of _store_price calls daily_stock_prices holds no
\* row for a key never stored, exactly one row for every key stored, and
\* that row carries the open, high, low, close, volume and mic of the latest
\* call for the key.
C35_PriceUpsertOneRowPerKey ==
    fn_call.fn = "_store_price" =>
        \A k \in Keys, date \in StoreDates :
            LET rows == {r \in daily_stock_prices :
                            r.symbol = k[1] /\ r.date = date /\ r.exchange = k[2]}
                latest == fn_call.latest[<<k, date>>]
            IN IF latest = <<>> THEN rows = {}
               ELSE rows = {PriceRow(k[1], latest[1].quote, date, k[2], latest[1].mic)}

\* a key was stored again with another quote and another mic, next to a row
\* of the same stock for another date
C35_Witness ==
    /\ fn_call.fn = "_store_price"
    /\ \E r, q \in daily_stock_prices :
          /\ r.symbol = q.symbol /\ r.exchange = q.exchange /\ r.date # q.date
          /\ r.mic = "XNAS"
          /\ r.open = <<2>>
          /\ q.open = <<>>
    /\ Cardinality(daily_stock_prices) = 2

\* a position without its market_cap, and lists of positions that agree in
\* everything but market_cap
ButCap(position) ==
    [symbol |-> position.symbol, exchange |-> position.exchange, price |-> position.price,
     shares |-> position.shares, weight |-> position.weight,
     notional_value |-> position.notional_value]
SameButCap(a, b) == Len(a) = Len(b) /\ \A i \in 1..Len(a) : ButCap(a[i]) = ButCap(b[i])
\* the portfolios that differ from a portfolio in market_cap values only
OtherCaps(portfolio) ==
    {[i \in 1..Len(portfolio) |-> [portfolio[i] EXCEPT !.market_cap = caps[i]]] :
        caps \in [1..Len(portfolio) -> {R(0), R(5)}]}
StoredCaps(r) == {R(c) : c \in CapOn(<<r.symbol, r.exchange>>, r.date)}

\* C36: at every pass of a build, a carried portfolio with other market_cap
\* values gives the same revalued positions but for market_cap, the same
\* NAV (hence the same returns and the same rebalanced portfolio, which are
\* computed from the NAV and the Top-N alone), the same ADDED stocks and the
\* same REMOVED stocks but for market_cap; and the market_cap of every
\* composition row and of every ADDED record is the one stored for that
\* stock and date, so a re-derived market_cap is persisted in REMOVED
\* records only.
C36_ImpliedCapNotInWeights ==
    /\ (phase = "ITERATING" /\ current_date <= EndDt(req)) =>
          \A alt \in OtherCaps(prev_portfolio) :
              LET portfolio == UpdatePortfolioPrices(prev_portfolio, current_date)
                  other == UpdatePortfolioPrices(alt, current_date)
              IN /\ SameButCap(portfolio, other)
                 /\ SameButCap(MutatedInPlace(prev_portfolio, current_date),
                               MutatedInPlace(alt, current_date))
                 /\ CalculateNav(portfolio) = CalculateNav(other)
                 /\ \A top \in QueryTopN(current_date, req.top_n) :
                       LET mine == DetectCompositionChanges(KeySet(portfolio), KeySet(top),
                                                            portfolio, top)
                           theirs == DetectCompositionChanges(KeySet(other), KeySet(top),
                                                              other, top)
                       IN /\ mine.added_stocks = theirs.added_stocks
                          /\ SameButCap(mine.removed_stocks, theirs.removed_stocks)
    /\ \A r \in index_composition : r.market_cap \in StoredCaps(r)
    /\ \A r \in composition_changes : r.change_type = "ADDED" => r.market_cap \in StoredCaps(r)

\* a REMOVED record carries a re-derived market_cap that is not the one
\* stored for the stock on that date
C36_Witness ==
    /\ phase = "DONE"
    /\ \E r \in composition_changes :
          /\ r.change_type = "REMOVED"
          /\ StoredCaps(r) # {}
          /\ r.market_cap \notin StoredCaps(r)

====
